---- MODULE Spec2Model ----
(***************************************************************************)
(* Schema auto-migration of the inventory database (src/database.py):      *)
(* DatabaseManager.__init__ / init_database / _migrate_table_schema /      *)
(* _create_table / _recreate_table / _copy_data_safe / _create_indexes,    *)
(* run on a python sqlite3 connection in its default (legacy) transaction  *)
(* mode: a statement executes in autocommit unless a transaction is open,  *)
(* and the connection opens one implicitly before an INSERT.               *)
(*                                                                         *)
(* Cell values are integers compared by SQL equality; storage classes and  *)
(* type affinity are not modelled.  Foreign keys are not enforced: the     *)
(* code never issues PRAGMA foreign_keys=ON.                               *)
(*                                                                         *)
(* Spec is the startup of the application (the migration); StoreSpec is    *)
(* the store operations of DatabaseManager served by an instance whose     *)
(* constructor has returned, each in a transaction of its own.             *)
(***************************************************************************)
EXTENDS Integers, Sequences, FiniteSets, TLC

VARIABLES
    db,          \* the database as the open connection sees it
    disk,        \* the committed database (what a rollback or a crash leaves)
    inTxn,       \* the connection has an open transaction
    pc,          \* position of the process
    run,         \* number of startups so far
    idx,         \* position of the loop of init_database in TableOrder
    copyMode,    \* how the rebuild in progress (or the last one) copied its rows
    old,         \* the original of the rebuild in progress (or of the last one)
    outcome,     \* per table, the branch _migrate_table_schema took in this run
    calls,       \* per table, the number of _migrate_table_schema calls of this run
    queried,     \* a store operation was served by the instance of this run
    prevReturned, \* the init_database of the previous startup returned
    found,       \* the committed database the constructor of this run found
    returned,    \* per table, what the _migrate_table_schema call of this run returned
    store,       \* the rows of the tables, as the store operations read and write them
    lastOp,      \* the store operation served last, its arguments and its outcome
    scope        \* the family of store operations this behaviour exercises

storeVars == <<store, lastOp, scope>>

schemaVars == <<db, disk, inTxn, pc, run, idx, copyMode, old, outcome, calls, queried,
                prevReturned, found, returned>>

vars == <<db, disk, inTxn, pc, run, idx, copyMode, old, outcome, calls, queried,
          prevReturned, found, returned, store, lastOp, scope>>

----------------------------------------------------------------------------
(* Bounds of the model *)

MaxRows == 2      \* rows of the legacy table before the first startup
MaxVal  == 2      \* distinct payloads a legacy row can carry
MaxRuns == 2      \* startups of the application
MaxProducts == 1  \* products the store creates
MaxIngredients == 1 \* ingredients the store creates
MaxGroups == 2    \* groups the store creates
MaxParameters == 1 \* group parameters the store creates
MaxAmount == 1    \* largest amount a product is given
MaxEvents == 2    \* rows of inventory_events
MaxItems == 2     \* items of a list argument (ingredients, events, values)
MaxQuantity == 1  \* largest quantity of an ingredient, and largest unit cost
MaxOrder == 1     \* largest display_order update_group_order is given

----------------------------------------------------------------------------
(* Schema Descriptor: DatabaseManager.expected_schema *)

(* Mutant: the tables that declare foreign keys come first *)
TableOrder_ReferencingFirst ==
    << "product_ingredients", "group_products", "product_group_parameter_values",
       "group_parameters", "ingredients", "products", "groups", "inventory_events" >>

(* The keys of expected_schema, in the order of the dictionary *)
TableOrder ==
    << "ingredients", "products", "product_ingredients", "groups",
       "group_products", "group_parameters",
       "product_group_parameter_values", "inventory_events" >>

TableNames == { TableOrder[k] : k \in 1..Len(TableOrder) }

expected_schema ==
    [ ingredients |->
        << <<"id", "INTEGER PRIMARY KEY AUTOINCREMENT">>,
           <<"barcode_id", "TEXT UNIQUE NOT NULL">>,
           <<"name", "TEXT NOT NULL">>,
           <<"unit_cost", "REAL DEFAULT 0.0">>,
           <<"purchase_date", "DATE">>,
           <<"expiration_date", "DATE">>,
           <<"supplier", "TEXT">>,
           <<"is_flagged", "INTEGER DEFAULT 0">>,
           <<"last_updated", "DATETIME DEFAULT CURRENT_TIMESTAMP">> >>,
      products |->
        << <<"id", "INTEGER PRIMARY KEY AUTOINCREMENT">>,
           <<"barcode_id", "TEXT UNIQUE NOT NULL">>,
           <<"product_name", "TEXT NOT NULL">>,
           <<"batch_number", "TEXT">>,
           <<"date_mixed", "DATE NOT NULL">>,
           <<"total_quantity", "REAL DEFAULT 0.0">>,
           <<"total_cost", "REAL DEFAULT 0.0">>,
           <<"amount", "INTEGER DEFAULT 0">>,
           <<"notes", "TEXT">>,
           <<"last_updated", "DATETIME DEFAULT CURRENT_TIMESTAMP">> >>,
      product_ingredients |->
        << <<"id", "INTEGER PRIMARY KEY AUTOINCREMENT">>,
           <<"product_id", "INTEGER NOT NULL">>,
           <<"ingredient_id", "INTEGER NOT NULL">>,
           <<"quantity_used", "REAL NOT NULL">>,
           <<"cost_per_unit", "REAL DEFAULT 0.0">> >>,
      groups |->
        << <<"id", "INTEGER PRIMARY KEY AUTOINCREMENT">>,
           <<"name", "TEXT NOT NULL">>,
           <<"display_order", "INTEGER DEFAULT 0">>,
           <<"is_collapsed", "INTEGER DEFAULT 0">>,
           <<"created_at", "DATETIME DEFAULT CURRENT_TIMESTAMP">>,
           <<"last_updated", "DATETIME DEFAULT CURRENT_TIMESTAMP">> >>,
      group_products |->
        << <<"id", "INTEGER PRIMARY KEY AUTOINCREMENT">>,
           <<"group_id", "INTEGER NOT NULL">>,
           <<"product_id", "INTEGER NOT NULL">> >>,
      group_parameters |->
        << <<"id", "INTEGER PRIMARY KEY AUTOINCREMENT">>,
           <<"group_id", "INTEGER NOT NULL">>,
           <<"name", "TEXT NOT NULL">>,
           <<"display_order", "INTEGER DEFAULT 0">>,
           <<"created_at", "DATETIME DEFAULT CURRENT_TIMESTAMP">> >>,
      product_group_parameter_values |->
        << <<"id", "INTEGER PRIMARY KEY AUTOINCREMENT">>,
           <<"product_id", "INTEGER NOT NULL">>,
           <<"group_parameter_id", "INTEGER NOT NULL">>,
           <<"value", "TEXT">>,
           <<"last_updated", "DATETIME DEFAULT CURRENT_TIMESTAMP">> >>,
      inventory_events |->
        << <<"id", "INTEGER PRIMARY KEY AUTOINCREMENT">>,
           <<"product_id", "INTEGER NOT NULL">>,
           <<"delta", "INTEGER NOT NULL">>,
           <<"event_title", "TEXT">>,
           <<"event_date", "DATE DEFAULT CURRENT_DATE">>,
           <<"created_at", "DATETIME DEFAULT CURRENT_TIMESTAMP">> >> ]

(* temp_table_name = f"{table_name}_new" *)
temp_table_name(table_name) ==
    CASE table_name = "ingredients" -> "ingredients_new"
      [] table_name = "products" -> "products_new"
      [] table_name = "product_ingredients" -> "product_ingredients_new"
      [] table_name = "groups" -> "groups_new"
      [] table_name = "group_products" -> "group_products_new"
      [] table_name = "group_parameters" -> "group_parameters_new"
      [] table_name = "product_group_parameter_values"
            -> "product_group_parameter_values_new"
      [] table_name = "inventory_events" -> "inventory_events_new"

(* The table-level constraints _create_table appends, chosen by the name    *)
(* the table is created under.                                              *)
create_table_constraints(table_name) ==
    IF table_name = "product_ingredients" THEN
        << "FOREIGN KEY (product_id) REFERENCES products (id) ON DELETE CASCADE",
           "FOREIGN KEY (ingredient_id) REFERENCES ingredients (id) ON DELETE CASCADE",
           "UNIQUE(product_id, ingredient_id)" >>
    ELSE IF table_name = "group_products" THEN
        << "FOREIGN KEY (group_id) REFERENCES groups (id) ON DELETE CASCADE",
           "FOREIGN KEY (product_id) REFERENCES products (id) ON DELETE CASCADE",
           "UNIQUE(product_id)" >>
    ELSE IF table_name = "group_parameters" THEN
        << "FOREIGN KEY (group_id) REFERENCES groups (id) ON DELETE CASCADE",
           "UNIQUE(group_id, name)" >>
    ELSE IF table_name = "product_group_parameter_values" THEN
        << "FOREIGN KEY (product_id) REFERENCES products (id) ON DELETE CASCADE",
           "FOREIGN KEY (group_parameter_id) REFERENCES group_parameters (id) ON DELETE CASCADE",
           "UNIQUE(product_id, group_parameter_id)" >>
    ELSE << >>

----------------------------------------------------------------------------
(* The table a FOREIGN KEY constraint of _create_table references ("" for a  *)
(* UNIQUE constraint)                                                       *)
ReferencedTable(constraint) ==
    CASE constraint = "FOREIGN KEY (product_id) REFERENCES products (id) ON DELETE CASCADE"
            -> "products"
      [] constraint = "FOREIGN KEY (ingredient_id) REFERENCES ingredients (id) ON DELETE CASCADE"
            -> "ingredients"
      [] constraint = "FOREIGN KEY (group_id) REFERENCES groups (id) ON DELETE CASCADE"
            -> "groups"
      [] constraint = "FOREIGN KEY (group_parameter_id) REFERENCES group_parameters (id) ON DELETE CASCADE"
            -> "group_parameters"
      [] OTHER -> ""

(* The position of a table in the iteration of expected_schema *)
Position(t) == CHOOSE k \in 1..Len(TableOrder) : TableOrder[k] = t

----------------------------------------------------------------------------
(* The SQL engine, as far as the statements of the migration use it *)

NULL == 0 - 1

ColName(col) == col[1]
ColDecl(col) == col[2]

ColNameSeq(columns) == [k \in 1..Len(columns) |-> ColName(columns[k])]
ColNames(columns) == { ColName(columns[k]) : k \in 1..Len(columns) }

DeclOf(columns, c) ==
    ColDecl(columns[CHOOSE k \in 1..Len(columns) : ColName(columns[k]) = c])

(* What the engine reads in a declared type string *)
IsPrimaryKey(decl) == decl = "INTEGER PRIMARY KEY AUTOINCREMENT"
IsNotNull(decl) ==
    decl \in { "TEXT UNIQUE NOT NULL", "TEXT NOT NULL", "DATE NOT NULL",
               "INTEGER NOT NULL", "REAL NOT NULL" }
IsUnique(decl) == decl = "TEXT UNIQUE NOT NULL"
DefaultValue(decl) ==
    CASE decl \in { "REAL DEFAULT 0.0", "INTEGER DEFAULT 0" } -> 0
      [] decl \in { "DATETIME DEFAULT CURRENT_TIMESTAMP",
                    "DATE DEFAULT CURRENT_DATE" } -> 7
      [] OTHER -> NULL

(* The column set of a table-level UNIQUE constraint ({} for a foreign key) *)
UniqueKeyOf(constraint) ==
    CASE constraint = "UNIQUE(product_id, ingredient_id)"
            -> { "product_id", "ingredient_id" }
      [] constraint = "UNIQUE(product_id)" -> { "product_id" }
      [] constraint = "UNIQUE(group_id, name)" -> { "group_id", "name" }
      [] constraint = "UNIQUE(product_id, group_parameter_id)"
            -> { "product_id", "group_parameter_id" }
      [] OTHER -> {}

(* The columns of the table a table-level constraint names *)
ConstraintColumns(constraint) ==
    CASE constraint \in
            { "FOREIGN KEY (product_id) REFERENCES products (id) ON DELETE CASCADE" }
            -> { "product_id" }
      [] constraint \in
            { "FOREIGN KEY (ingredient_id) REFERENCES ingredients (id) ON DELETE CASCADE" }
            -> { "ingredient_id" }
      [] constraint \in
            { "FOREIGN KEY (group_id) REFERENCES groups (id) ON DELETE CASCADE" }
            -> { "group_id" }
      [] constraint \in
            { "FOREIGN KEY (group_parameter_id) REFERENCES group_parameters (id) ON DELETE CASCADE" }
            -> { "group_parameter_id" }
      [] OTHER -> UniqueKeyOf(constraint)

UniqueKeys(table) ==
    { UniqueKeyOf(table.constraints[k]) : k \in 1..Len(table.constraints) } \ { {} }

NoIndexes == [n \in {} |-> ""]
NoTables == [n \in {} |-> [cols |-> << >>, constraints |-> << >>, rows |-> << >>]]
EmptyDb == [tables |-> NoTables, views |-> {}, indexes |-> NoIndexes]

TableExists(d, name) == name \in DOMAIN d.tables

(* A name a CREATE TABLE cannot take: a table, a view or an index has it *)
NameTaken(d, name) ==
    name \in DOMAIN d.tables \/ name \in d.views \/ name \in DOMAIN d.indexes

Without(f, name) == [n \in (DOMAIN f) \ {name} |-> f[n]]

MaxOf(S) == IF S = {} THEN 0 ELSE CHOOSE m \in S : \A x \in S : x <= m

(* The row an INSERT INTO table (insertCols) VALUES (vals) builds: a column *)
(* that is not listed takes its default, an INTEGER PRIMARY KEY left NULL   *)
(* takes the next rowid.                                                    *)
BuiltRow(table, insertCols, vals) ==
    LET names == ColNames(table.cols)
        given(c) ==
            IF \E j \in 1..Len(insertCols) : insertCols[j] = c
            THEN vals[CHOOSE j \in 1..Len(insertCols) : insertCols[j] = c]
            ELSE DefaultValue(DeclOf(table.cols, c))
        nextId(c) ==
            1 + MaxOf({ table.rows[k][c] : k \in 1..Len(table.rows) })
    IN  [c \in names |->
            IF IsPrimaryKey(DeclOf(table.cols, c)) /\ given(c) = NULL
            THEN nextId(c) ELSE given(c)]

(* The constraint failures (sqlite3.IntegrityError) of inserting row r *)
Violates(table, r) ==
    \/ \E c \in DOMAIN r : IsNotNull(DeclOf(table.cols, c)) /\ r[c] = NULL
    \/ \E c \in DOMAIN r :
          /\ IsUnique(DeclOf(table.cols, c)) \/ IsPrimaryKey(DeclOf(table.cols, c))
          /\ r[c] # NULL
          /\ \E k \in 1..Len(table.rows) : table.rows[k][c] = r[c]
    \/ \E key \in UniqueKeys(table) :
          /\ \A c \in key : r[c] # NULL
          /\ \E k \in 1..Len(table.rows) : \A c \in key : table.rows[k][c] = r[c]

(* conn.execute("INSERT INTO t (insertCols) VALUES (?, ...)", vals) *)
InsertRow(table, insertCols, vals) ==
    LET r == BuiltRow(table, insertCols, vals)
    IN  IF Violates(table, r)
        THEN [ok |-> FALSE, table |-> table]
        ELSE [ok |-> TRUE, table |-> [table EXCEPT !.rows = Append(@, r)]]

(* SELECT selectCols FROM source: the value tuples, in rowid order *)
SelectRows(source, selectCols) ==
    [k \in 1..Len(source.rows) |->
        [j \in 1..Len(selectCols) |-> source.rows[k][selectCols[j]]]]

(* INSERT INTO target (insertCols) SELECT ...: one statement, which fails   *)
(* as a whole and leaves the target as it was when one row fails.           *)
RECURSIVE InsertAll(_, _, _)
InsertAll(table, insertCols, tuples) ==
    IF tuples = << >> THEN [ok |-> TRUE, table |-> table]
    ELSE LET first == InsertRow(table, insertCols, Head(tuples))
         IN  IF first.ok THEN InsertAll(first.table, insertCols, Tail(tuples))
             ELSE [ok |-> FALSE, table |-> table]

(* Mutant: the rows inserted before the failing one stay in the target *)
InsertSelect_KeepsPartial(target, insertCols, source, selectCols) ==
    LET tuples == SelectRows(source, selectCols)
        res == InsertAll(target, insertCols, tuples)
        good == { n \in 0..Len(tuples) :
                    InsertAll(target, insertCols, SubSeq(tuples, 1, n)).ok }
    IN  IF res.ok THEN res
        ELSE [ok |-> FALSE,
              table |-> InsertAll(target, insertCols,
                                  SubSeq(tuples, 1, MaxOf(good))).table]

InsertSelect(target, insertCols, source, selectCols) ==
    LET res == InsertAll(target, insertCols, SelectRows(source, selectCols))
    IN  IF res.ok THEN res ELSE [ok |-> FALSE, table |-> target]

(* Mutant: foreign keys are enforced, DROP TABLE deletes the rows of the    *)
(* table first and ON DELETE CASCADE takes the rows that reference them     *)
DropTable_Cascade(d, name) ==
    LET gone == d.tables[name]
        ids == IF "id" \in ColNames(gone.cols)
               THEN { gone.rows[k]["id"] : k \in 1..Len(gone.rows) } ELSE {}
        refCols(t) ==
            UNION { ConstraintColumns(d.tables[t].constraints[k]) :
                      k \in { j \in 1..Len(d.tables[t].constraints) :
                                ReferencedTable(d.tables[t].constraints[j]) = name } }
        kept(t) == SelectSeq(d.tables[t].rows,
                             LAMBDA r : \A c \in refCols(t) : r[c] \notin ids)
    IN  [d EXCEPT !.tables = [n \in (DOMAIN @) \ { name } |->
                                [@[n] EXCEPT !.rows = kept(n)]],
                  !.indexes = [n \in { m \in DOMAIN @ : @[m] # name } |-> @[n]]]

(* DROP TABLE name: the table goes with the indexes on it *)
DropTable(d, name) ==
    [d EXCEPT !.tables = Without(@, name),
              !.indexes = [n \in { m \in DOMAIN @ : @[m] # name } |-> @[n]]]

(* Mutant: the rename does not happen *)
RenameTable_Missing(d, from, to) == d

(* ALTER TABLE from RENAME TO to: the indexes of the table follow it *)
RenameTable(d, from, to) ==
    [d EXCEPT !.tables = (to :> @[from]) @@ Without(@, from),
              !.indexes = [n \in DOMAIN @ |-> IF @[n] = from THEN to ELSE @[n]]]

----------------------------------------------------------------------------
(* DatabaseManager: the schema synchronisation *)

(* Mutant: the columns are declared in the opposite order *)
create_table_Reversed(d, table_name, columns) ==
    IF NameTaken(d, table_name)
    THEN [ok |-> FALSE, db |-> d]
    ELSE [ok |-> TRUE,
          db |-> [d EXCEPT !.tables =
                    (table_name :>
                        [cols |-> [k \in 1..Len(columns) |-> columns[Len(columns) + 1 - k]],
                         constraints |-> create_table_constraints(table_name),
                         rows |-> << >>]) @@ @]]

(* Mutant: CREATE TABLE IF NOT EXISTS, a taken name is no error *)
create_table_IfNotExists(d, table_name, columns) ==
    IF NameTaken(d, table_name)
    THEN [ok |-> TRUE, db |-> d]
    ELSE [ok |-> TRUE,
          db |-> [d EXCEPT !.tables =
                    (table_name :> [cols |-> columns,
                                    constraints |-> create_table_constraints(table_name),
                                    rows |-> << >>]) @@ @]]

(* _create_table: the statement fails (sqlite3.OperationalError) when the   *)
(* name is taken; the constraints depend on the name the table is created   *)
(* under.                                                                   *)
create_table(d, table_name, columns) ==
    IF NameTaken(d, table_name)
    THEN [ok |-> FALSE, db |-> d]
    ELSE [ok |-> TRUE,
          db |-> [d EXCEPT !.tables =
                    (table_name :> [cols |-> columns,
                                    constraints |-> create_table_constraints(table_name),
                                    rows |-> << >>]) @@ @]]

(* _migrate_table_schema: the sets it compares *)
expected_column_names(expected_columns) == ColNames(expected_columns)
current_column_names(d, table_name) == ColNames(d.tables[table_name].cols)

columns_to_add(d, table_name, expected_columns) ==
    expected_column_names(expected_columns) \ current_column_names(d, table_name)
columns_to_remove(d, table_name, expected_columns) ==
    current_column_names(d, table_name) \ expected_column_names(expected_columns)

(* Mutant: the declared types are compared too *)
SchemaMatches_TypesToo(d, table_name, expected_columns) ==
    d.tables[table_name].cols = expected_columns

(* Mutant: only the missing columns are looked at *)
SchemaMatches_AddOnly(d, table_name, expected_columns) ==
    columns_to_add(d, table_name, expected_columns) = {}

(* Mutant: the declarations are compared, whatever their order *)
SchemaMatches_Declarations(d, table_name, expected_columns) ==
    { d.tables[table_name].cols[k] : k \in 1..Len(d.tables[table_name].cols) }
        = { expected_columns[k] : k \in 1..Len(expected_columns) }

SchemaMatches(d, table_name, expected_columns) ==
    /\ columns_to_add(d, table_name, expected_columns) = {}
    /\ columns_to_remove(d, table_name, expected_columns) = {}

(* _recreate_table: common_columns and the one string ', '.join(...) that   *)
(* both column lists of the copy statement use                              *)
common_columns(expected_columns, current_columns) ==
    ColNames(expected_columns) \cap ColNames(current_columns)

common_cols_str(expected_columns, current_columns) ==
    SelectSeq(ColNameSeq(expected_columns),
              LAMBDA c : c \in common_columns(expected_columns, current_columns))

(* Mutant: the SELECT lists the columns in the opposite order *)
copy_sql_Reordered(target, source, cols) ==
    InsertSelect(target, cols, source, [j \in 1..Len(cols) |-> cols[Len(cols) + 1 - j]])

(* The bulk copy: INSERT INTO temp (common) SELECT common FROM table *)
copy_sql(target, source, cols) == InsertSelect(target, cols, source, cols)

(* _copy_data_safe: row by row, a row whose insert fails is skipped *)
RECURSIVE copy_data_safe_rows(_, _, _)
copy_data_safe_rows(table, insertCols, tuples) ==
    IF tuples = << >> THEN table
    ELSE copy_data_safe_rows(InsertRow(table, insertCols, Head(tuples)).table,
                             insertCols, Tail(tuples))

(* Mutant: the loop stops at the first row that fails *)
copy_data_safe_StopAtFailure(target, source, cols) ==
    LET tuples == SelectRows(source, cols)
        firstBad == { k \in 1..Len(tuples) :
                        ~InsertAll(target, cols, SubSeq(tuples, 1, k)).ok }
        n == IF firstBad = {} THEN Len(tuples)
             ELSE (CHOOSE k \in firstBad : \A m \in firstBad : k <= m) - 1
    IN  InsertAll(target, cols, SubSeq(tuples, 1, n)).table

copy_data_safe(target, source, cols) ==
    copy_data_safe_rows(target, cols, SelectRows(source, cols))

(* _create_indexes: the list, as <<index name, table, column>> *)
indexes ==
    << <<"idx_ingredients_barcode", "ingredients", "barcode_id">>,
       <<"idx_products_barcode", "products", "barcode_id">>,
       <<"idx_products_date_mixed", "products", "date_mixed">>,
       <<"idx_product_ingredients_product", "product_ingredients", "product_id">>,
       <<"idx_product_ingredients_ingredient", "product_ingredients", "ingredient_id">>,
       <<"idx_groups_order", "groups", "display_order">>,
       <<"idx_group_products_group", "group_products", "group_id">>,
       <<"idx_group_products_product", "group_products", "product_id">>,
       <<"idx_group_parameters_group", "group_parameters", "group_id">>,
       <<"idx_product_param_values_product", "product_group_parameter_values",
         "product_id">>,
       <<"idx_product_param_values_parameter", "product_group_parameter_values",
         "group_parameter_id">> >>

(* CREATE INDEX IF NOT EXISTS name ON table(column): nothing when the index *)
(* exists, sqlite3.OperationalError when the table or the column is missing *)
(* or the name is taken; the loop logs the error and goes on.               *)
IndexFails(d, ix) ==
    /\ ix[1] \notin DOMAIN d.indexes
    /\ \/ ix[1] \in DOMAIN d.tables \/ ix[1] \in d.views
       \/ ~TableExists(d, ix[2])
       \/ TableExists(d, ix[2]) /\ ix[3] \notin ColNames(d.tables[ix[2]].cols)

create_index(d, ix) ==
    IF ix[1] \in DOMAIN d.indexes \/ IndexFails(d, ix) THEN d
    ELSE [d EXCEPT !.indexes = (ix[1] :> ix[2]) @@ @]

RECURSIVE create_indexes_from(_, _)
create_indexes_from(d, k) ==
    IF k > Len(indexes) THEN d
    ELSE create_indexes_from(create_index(d, indexes[k]), k + 1)

(* Mutant: the loop ends at the first index whose creation fails *)
create_indexes_StopAtFailure(d) ==
    LET bad == { k \in 1..Len(indexes) : IndexFails(d, indexes[k]) }
        n == IF bad = {} THEN Len(indexes) + 1
             ELSE CHOOSE k \in bad : \A m \in bad : k <= m
        new == { k \in 1..(n - 1) : indexes[k][1] \notin DOMAIN d.indexes }
    IN  [d EXCEPT !.indexes =
            [name \in { indexes[k][1] : k \in new } |->
                indexes[CHOOSE k \in new : indexes[k][1] = name][2]] @@ @]

create_indexes(d) == create_indexes_from(d, 1)

----------------------------------------------------------------------------
(* The databases a startup can find: what earlier revisions of the          *)
(* application, or an interrupted run, left behind                          *)

MatchingTable(t) ==
    [cols |-> expected_schema[t],
     constraints |-> create_table_constraints(t),
     rows |-> << >>]

(* The tables an earlier installation holds besides the focus table: none,  *)
(* those of the first revision (with its table inventory), or all of them   *)
Bases == { "fresh", "first_revision", "installed" }

BasePresent(base) ==
    CASE base = "fresh" -> {}
      [] base = "first_revision" -> { "ingredients", "products", "product_ingredients" }
      [] base = "installed" -> TableNames

(* The shape of the focus table: absent, or its expected columns without    *)
(* the column at position drop (0: none), with a retired column appended    *)
(* (extra), declared as now or without any constraint (loose); or a table   *)
(* that shares no column with the descriptor.                               *)
Shapes(t) ==
    LET n == Len(expected_schema[t])
    IN  { [kind |-> k, drop |-> 0, extra |-> FALSE, loose |-> FALSE] :
              k \in { "absent", "nocommon" } }
        \cup { [kind |-> "cols", drop |-> d, extra |-> e, loose |-> FALSE] :
              d \in 0..n, e \in BOOLEAN }
        \cup { [kind |-> "cols", drop |-> 0, extra |-> TRUE, loose |-> TRUE],
               [kind |-> "cols", drop |-> 1, extra |-> FALSE, loose |-> TRUE],
               [kind |-> "cols", drop |-> n, extra |-> FALSE, loose |-> TRUE],
               [kind |-> "cols", drop |-> 0, extra |-> FALSE, loose |-> TRUE] }

RetiredColumn == << <<"unit", "TEXT">> >>

LegacyColumns(t, sh) ==
    LET E == expected_schema[t]
        kept == IF sh.drop = 0 THEN E
                ELSE [k \in 1..(Len(E) - 1) |-> IF k < sh.drop THEN E[k] ELSE E[k + 1]]
        decl(col) == IF sh.loose /\ ~IsPrimaryKey(ColDecl(col))
                     THEN <<ColName(col), "TEXT">> ELSE col
    IN  IF sh.kind = "nocommon" THEN RetiredColumn
        ELSE [k \in 1..Len(kept) |-> decl(kept[k])]
             \o (IF sh.extra THEN RetiredColumn ELSE << >>)

(* A legacy row: its position as primary key, NULL in the columns that      *)
(* admit it when the row is sparse, and elsewhere a value of its own column *)
RowSpecs == [p : 1..MaxVal, sparse : BOOLEAN]

(* Payloads matter by equality only: they are numbered in the order of     *)
(* their first appearance                                                   *)
Datasets ==
    { ds \in UNION { [1..m -> RowSpecs] : m \in 0..MaxRows } :
        \A k \in 1..Len(ds) : ds[k].p <= 1 + MaxOf({ ds[j].p : j \in 1..(k - 1) }) }

LegacyRow(cols, k, rs) ==
    [c \in ColNames(cols) |->
        LET j == CHOOSE i \in 1..Len(cols) : ColName(cols[i]) = c
        IN  IF IsPrimaryKey(ColDecl(cols[j])) THEN k
            ELSE IF rs.sparse /\ ~IsNotNull(ColDecl(cols[j])) THEN NULL
            ELSE 10 * j + rs.p]

LegacyTable(t, sh, ds) ==
    LET cols == LegacyColumns(t, sh)
    IN  [cols |-> cols,
         constraints |-> SelectSeq(create_table_constraints(t),
                                   LAMBDA c : ConstraintColumns(c) \subseteq ColNames(cols)),
         rows |-> [k \in 1..Len(ds) |-> LegacyRow(cols, k, ds[k])]]

(* The rows of a table satisfy the constraints of the table *)
ValidTable(table) ==
    InsertAll([table EXCEPT !.rows = << >>], ColNameSeq(table.cols),
              SelectRows(table, ColNameSeq(table.cols))).ok

(* A name that is taken: the sibling of the focus table (left by an         *)
(* interrupted rebuild), or a view under the name of an absent table (the   *)
(* focus table or the last table of the descriptor) or under the name of an *)
(* index of the list of _create_indexes                                     *)
BlockedIndex == "idx_groups_order"

Blockers(base, focus, sh) ==
    LET last == TableOrder[Len(TableOrder)]
        absent == { t \in TableNames \ BasePresent(base) : t # focus }
                  \cup (IF sh.kind = "absent" THEN { focus } ELSE {})
    IN  { [kind |-> "none", at |-> ""] }
        \cup (IF sh.kind # "absent"
              THEN { [kind |-> "sibling", at |-> focus] } ELSE {})
        \cup { [kind |-> "view", at |-> t] : t \in { focus, last } \cap absent }
        \cup { [kind |-> "view", at |-> BlockedIndex] }

(* A table all of whose foreign keys reference the table parent, and the    *)
(* row it holds for the first row of parent                                 *)
ReferencesOnly(t, parent) ==
    LET refs == { ReferencedTable(create_table_constraints(t)[k]) :
                    k \in 1..Len(create_table_constraints(t)) } \ { "" }
    IN  refs = { parent }

ChildRow(t) ==
    LET cols == expected_schema[t]
        keys == UNION { ConstraintColumns(create_table_constraints(t)[k]) :
                          k \in { j \in 1..Len(create_table_constraints(t)) :
                                    ReferencedTable(create_table_constraints(t)[j]) # "" } }
    IN  [c \in ColNames(cols) |->
            LET j == CHOOSE i \in 1..Len(cols) : ColName(cols[i]) = c
            IN  IF IsPrimaryKey(ColDecl(cols[j])) \/ c \in keys THEN 1 ELSE 10 * j + 1]

InitialDb(base, focus, sh, ds, blocker) ==
    LET others == BasePresent(base) \ { focus }
        referenced == sh.kind = "cols" /\ sh.drop # 1 /\ Len(ds) > 0
        named == [t \in others |->
                    IF referenced /\ ReferencesOnly(t, focus)
                    THEN [MatchingTable(t) EXCEPT !.rows = << ChildRow(t) >>]
                    ELSE MatchingTable(t)]
        withFocus == IF sh.kind = "absent" THEN named
                     ELSE (focus :> LegacyTable(focus, sh, ds)) @@ named
        withLegacy == IF base = "first_revision"
                      THEN ("inventory" :> [cols |-> RetiredColumn,
                                            constraints |-> << >>,
                                            rows |-> << [unit |-> 1] >>]) @@ withFocus
                      ELSE withFocus
        withSibling == IF blocker.kind = "sibling"
                       THEN (temp_table_name(blocker.at) :>
                                [cols |-> expected_schema[blocker.at],
                                 constraints |-> << >>,
                                 rows |-> << >>]) @@ withLegacy
                       ELSE withLegacy
    IN  create_indexes([tables |-> withSibling,
                        views |-> IF blocker.kind = "view" THEN { blocker.at } ELSE {},
                        indexes |-> NoIndexes])

NoOld == [name |-> "", table |-> [cols |-> << >>, constraints |-> << >>, rows |-> << >>]]
NoOutcome == [t \in TableNames |-> "none"]
NoCalls == [t \in TableNames |-> 0]
(* What a call that has not returned has returned, and the value of a bare  *)
(* return statement                                                         *)
Pending == [kind |-> "pending"]
None == [kind |-> "None"]
NoReturn == [t \in TableNames |-> Pending]

----------------------------------------------------------------------------
(* The store operations (src/database.py, 357-1143).                        *)
(*                                                                          *)
(* store holds the rows of the tables with the columns the operations       *)
(* compute with: a table with an INTEGER PRIMARY KEY AUTOINCREMENT that the *)
(* operations address by id is a function from id to row, and sequence is   *)
(* its entry of sqlite_sequence (the largest id it ever handed out); the    *)
(* other tables are the sequences of their rows in rowid order.  Names,     *)
(* barcodes, dates and notes are left out: barcodes are generated, names    *)
(* of the parameters of a group are taken distinct.  The table constraints  *)
(* an operation can run into are read from the schema in db.                *)
(* An operator returns ok = FALSE with the rows as they are at the moment   *)
(* the exception is raised (or the error response returned).                *)

EmptyStore ==
    [ingredients         |-> << >>,
     products            |-> << >>,
     product_ingredients |-> << >>,
     inventory_events    |-> << >>,
     groups              |-> << >>,
     group_products      |-> << >>,
     group_parameters    |-> << >>,
     parameter_values    |-> << >>,
     sequence            |-> [ingredients |-> 0, products |-> 0,
                              groups |-> 0, group_parameters |-> 0]]

NoLast == [op |-> "none", ok |-> TRUE, id |-> 0, arg |-> 0, dirty |-> FALSE, grew |-> FALSE]

Ok(s) == [ok |-> TRUE, store |-> s]
Failed(s) == [ok |-> FALSE, store |-> s]

(* Python's  x or y  on a number or None.  (amount or 0 is the amount: the  *)
(* operations never store a NULL amount.)                                   *)
PyOr(x, y) == IF x = NULL \/ x = 0 THEN y ELSE x

(* Python's  max(0, x) *)
Max0(x) == IF x < 0 THEN 0 ELSE x

(* The table has the UNIQUE constraint over these columns *)
HasUnique(t, columns) == TableExists(db, t) /\ columns \in UniqueKeys(db.tables[t])

(* INSERT INTO t: the row takes the id after the largest one ever handed out *)
NextId(s, t) == s.sequence[t] + 1

(* _log_inventory_event *)
log_inventory_event(s, product_id, delta) ==
    IF delta = 0
    THEN s
    ELSE [s EXCEPT !.inventory_events =
                      Append(@, [product_id |-> product_id, delta |-> delta])]

(* Mutant: the event carries the requested change, not the applied one *)
adjust_product_amount_LogsRequested(s, product_id, delta) ==
    IF product_id \notin DOMAIN s.products
    THEN Failed(s)
    ELSE LET new_amount == Max0(s.products[product_id].amount + delta)
             updated == [s EXCEPT !.products[product_id].amount = new_amount]
         IN  Ok(log_inventory_event(updated, product_id, delta))

(* adjust_product_amount *)
adjust_product_amount(s, product_id, delta) ==
    IF product_id \notin DOMAIN s.products
    THEN Failed(s)
    ELSE LET current_amount == s.products[product_id].amount
             new_amount == Max0(current_amount + delta)
             updated == [s EXCEPT !.products[product_id].amount = new_amount]
         IN  Ok(log_inventory_event(updated, product_id, new_amount - current_amount))

(* update_product_amount *)
update_product_amount(s, product_id, new_amount) ==
    IF product_id \notin DOMAIN s.products
    THEN Failed(s)
    ELSE LET amount == Max0(new_amount)
             current_amount == s.products[product_id].amount
             updated == [s EXCEPT !.products[product_id].amount = amount]
         IN  Ok(log_inventory_event(updated, product_id, amount - current_amount))

(* The loop of add_inventory_events over its entries, from entry k on *)
RECURSIVE add_inventory_events_from(_, _, _)
add_inventory_events_from(s, events, k) ==
    IF k > Len(events)
    THEN Ok(s)
    ELSE LET product_id == events[k].product_id
             delta == events[k].delta
         IN  IF product_id = NULL \/ product_id = 0 \/ delta = 0
             THEN add_inventory_events_from(s, events, k + 1)
             ELSE IF product_id \notin DOMAIN s.products
             THEN Failed(s)
             ELSE LET current_amount == s.products[product_id].amount
                      new_amount == current_amount + delta
                  IN  IF delta < 0 /\ new_amount < 0
                      THEN Failed(s)
                      ELSE add_inventory_events_from(
                               log_inventory_event(
                                   [s EXCEPT !.products[product_id].amount = new_amount],
                                   product_id, delta),
                               events, k + 1)

(* add_inventory_events *)
add_inventory_events(s, events) == add_inventory_events_from(s, events, 1)

(* The loop of create_product and update_product over the ingredients, from *)
(* item k on: the unit cost is looked up, the row inserted                  *)
RECURSIVE add_ingredients_from(_, _, _, _, _)
add_ingredients_from(s, product_id, ingredients, k, totals) ==
    IF k > Len(ingredients)
    THEN [ok |-> TRUE, store |-> s, totals |-> totals]
    ELSE LET ingredient_id == ingredients[k].ingredient_id
             quantity == ingredients[k].quantity
         IN  IF ingredient_id \notin DOMAIN s.ingredients
             THEN [ok |-> FALSE, store |-> s, totals |-> totals]
             ELSE LET unit_cost == s.ingredients[ingredient_id].unit_cost
                      row == [product_id |-> product_id,
                              ingredient_id |-> ingredient_id,
                              quantity_used |-> quantity,
                              cost_per_unit |-> unit_cost]
                      duplicate ==
                          \E j \in 1..Len(s.product_ingredients) :
                             /\ s.product_ingredients[j].product_id = product_id
                             /\ s.product_ingredients[j].ingredient_id = ingredient_id
                  IN  IF /\ HasUnique("product_ingredients",
                                      { "product_id", "ingredient_id" })
                         /\ duplicate
                      THEN [ok |-> FALSE, store |-> s, totals |-> totals]
                      ELSE add_ingredients_from(
                               [s EXCEPT !.product_ingredients = Append(@, row)],
                               product_id, ingredients, k + 1,
                               [cost |-> totals.cost + quantity * unit_cost,
                                quantity |-> totals.quantity + quantity])

NoTotals == [cost |-> 0, quantity |-> 0]

(* UPDATE products SET total_quantity = ?, total_cost = ? WHERE id = ? *)
set_totals(s, product_id, totals) ==
    [s EXCEPT !.products[product_id].total_quantity = totals.quantity,
              !.products[product_id].total_cost = totals.cost]

(* create_product *)
create_product(s, amount, ingredients) ==
    IF Len(ingredients) = 0
    THEN Failed(s)
    ELSE LET product_id == NextId(s, "products")
             inserted ==
                 [s EXCEPT !.products =
                               (product_id :> [amount |-> amount,
                                               total_quantity |-> 0,
                                               total_cost |-> 0]) @@ @,
                           !.sequence.products = product_id]
             added == add_ingredients_from(inserted, product_id, ingredients, 1, NoTotals)
         IN  IF ~added.ok
             THEN Failed(added.store)
             ELSE Ok(log_inventory_event(
                         set_totals(added.store, product_id, added.totals),
                         product_id, amount))

(* DELETE FROM product_ingredients WHERE product_id = ? *)
WithoutIngredientsOf(s, product_id) ==
    [s EXCEPT !.product_ingredients =
                  SelectSeq(@, LAMBDA r : r.product_id # product_id)]

(* update_product *)
update_product(s, product_id, amount, ingredients) ==
    IF Len(ingredients) = 0
    THEN Failed(s)
    ELSE IF product_id \notin DOMAIN s.products
    THEN Failed(s)
    ELSE LET updated == [s EXCEPT !.products[product_id].amount = amount]
             cleared == WithoutIngredientsOf(updated, product_id)
             added == add_ingredients_from(cleared, product_id, ingredients, 1, NoTotals)
         IN  IF ~added.ok
             THEN Failed(added.store)
             ELSE Ok(set_totals(added.store, product_id, added.totals))

(* delete_product *)
delete_product(s, product_id) ==
    IF product_id \notin DOMAIN s.products
    THEN Failed(s)
    ELSE Ok([WithoutIngredientsOf(s, product_id) EXCEPT
                 !.products = Without(@, product_id)])

(* create_ingredient *)
create_ingredient(s, unit_cost) ==
    LET ingredient_id == NextId(s, "ingredients")
    IN  Ok([s EXCEPT !.ingredients = (ingredient_id :> [unit_cost |-> unit_cost]) @@ @,
                     !.sequence.ingredients = ingredient_id])

(* update_ingredient *)
update_ingredient(s, ingredient_id, unit_cost) ==
    IF ingredient_id \notin DOMAIN s.ingredients
    THEN Failed(s)
    ELSE Ok([s EXCEPT !.ingredients[ingredient_id].unit_cost = unit_cost])

(* delete_ingredient *)
delete_ingredient(s, ingredient_id) ==
    IF ingredient_id \notin DOMAIN s.ingredients
    THEN Failed(s)
    ELSE Ok([s EXCEPT !.product_ingredients =
                          SelectSeq(@, LAMBDA r : r.ingredient_id # ingredient_id),
                      !.ingredients = Without(@, ingredient_id)])

(* Mutant: a failed operation keeps the statements it has executed *)
with_connection_NoRollback(before, result) == result.store

(* with self._get_db_connection() as conn: the block's statements are one   *)
(* transaction, committed when the block is left normally (an error         *)
(* response returned before any statement included) and rolled back when    *)
(* it is left by an exception                                               *)
with_connection(before, result) == IF result.ok THEN result.store ELSE before

(* SELECT MAX(display_order): NULL over no rows *)
MaxOrderOf(orders) == IF orders = {} THEN NULL ELSE MaxOf(orders)

(* next_order = (max_order or -1) + 1 *)
next_order(max_order) == PyOr(max_order, 0 - 1) + 1

(* create_group *)
create_group(s) ==
    LET max_order == MaxOrderOf({ s.groups[g].display_order : g \in DOMAIN s.groups })
        group_id == NextId(s, "groups")
    IN  Ok([s EXCEPT !.groups =
                         (group_id :> [display_order |-> next_order(max_order)]) @@ @,
                     !.sequence.groups = group_id])

(* delete_group *)
delete_group(s, group_id) ==
    IF group_id \notin DOMAIN s.groups
    THEN Failed(s)
    ELSE Ok([s EXCEPT !.group_products =
                          SelectSeq(@, LAMBDA r : r.group_id # group_id),
                      !.groups = Without(@, group_id)])

(* update_group_order: an UPDATE, of no row when the group is unknown *)
update_group_order(s, group_id, display_order) ==
    IF group_id \notin DOMAIN s.groups
    THEN Ok(s)
    ELSE Ok([s EXCEPT !.groups[group_id].display_order = display_order])

(* The two DELETEs add_product_to_group and remove_product_from_group start *)
(* with: the product's memberships and its parameter values                 *)
Ungrouped(s, product_id) ==
    [s EXCEPT !.group_products =
                  SelectSeq(@, LAMBDA r : r.product_id # product_id),
              !.parameter_values =
                  SelectSeq(@, LAMBDA r : r.product_id # product_id)]

(* INSERT INTO group_products (group_id, product_id): both are NOT NULL,    *)
(* and a second row of the product violates UNIQUE(product_id)              *)
InsertGroupProduct(s, group_id, product_id) ==
    IF \/ group_id = NULL
       \/ product_id = NULL
       \/ /\ HasUnique("group_products", { "product_id" })
          /\ \E j \in 1..Len(s.group_products) :
                s.group_products[j].product_id = product_id
    THEN Failed(s)
    ELSE Ok([s EXCEPT !.group_products =
                          Append(@, [group_id |-> group_id, product_id |-> product_id])])

(* Mutant: the product is added without being removed from its group first *)
add_product_to_group_NoDelete(s, group_id, product_id) ==
    InsertGroupProduct(s, group_id, product_id)

(* add_product_to_group *)
add_product_to_group(s, group_id, product_id) ==
    InsertGroupProduct(Ungrouped(s, product_id), group_id, product_id)

(* remove_product_from_group *)
remove_product_from_group(s, product_id) == Ok(Ungrouped(s, product_id))

(* create_group_parameter *)
create_group_parameter(s, group_id) ==
    LET max_order == MaxOrderOf({ s.group_parameters[q].display_order :
                                     q \in { x \in DOMAIN s.group_parameters :
                                                s.group_parameters[x].group_id = group_id } })
        param_id == NextId(s, "group_parameters")
    IN  IF group_id = NULL
        THEN Failed(s)
        ELSE Ok([s EXCEPT !.group_parameters =
                              (param_id :> [group_id |-> group_id,
                                            display_order |-> next_order(max_order)]) @@ @,
                          !.sequence.group_parameters = param_id])

(* delete_group_parameter *)
delete_group_parameter(s, parameter_id) ==
    Ok([s EXCEPT !.parameter_values =
                     SelectSeq(@, LAMBDA r : r.group_parameter_id # parameter_id),
                 !.group_parameters = Without(@, parameter_id)])

(* Mutant: the UPDATE matches the rows and leaves their value *)
UpdateValues_KeepsValue(rows, product_id, param_id, val) == rows

(* UPDATE product_group_parameter_values SET value = ? WHERE product_id = ? *)
(* AND group_parameter_id = ?                                               *)
UpdateValues(rows, product_id, param_id, val) ==
    [j \in 1..Len(rows) |->
        IF rows[j].product_id = product_id /\ rows[j].group_parameter_id = param_id
        THEN [rows[j] EXCEPT !.value = val]
        ELSE rows[j]]

(* The loop of set_product_group_parameter_values over values_list, from    *)
(* item k on.  An item that is no mapping has no get: the call raises.      *)
RECURSIVE set_values_from(_, _, _, _)
set_values_from(s, product_id, values_list, k) ==
    IF k > Len(values_list)
    THEN Ok(s)
    ELSE LET item == values_list[k]
             param_id == item.parameter_id
             rowcount ==
                 Cardinality({ j \in 1..Len(s.parameter_values) :
                                  /\ s.parameter_values[j].product_id = product_id
                                  /\ s.parameter_values[j].group_parameter_id = param_id })
         IN  IF ~item.mapping
             THEN Failed(s)
             ELSE IF param_id = NULL \/ param_id = 0
             THEN set_values_from(s, product_id, values_list, k + 1)
             ELSE IF rowcount > 0
             THEN set_values_from(
                      [s EXCEPT !.parameter_values =
                                    UpdateValues(@, product_id, param_id, item.value)],
                      product_id, values_list, k + 1)
             ELSE IF product_id = NULL
             THEN Failed(s)
             ELSE set_values_from(
                      [s EXCEPT !.parameter_values =
                                    Append(@, [product_id |-> product_id,
                                               group_parameter_id |-> param_id,
                                               value |-> item.value])],
                      product_id, values_list, k + 1)

(* set_product_group_parameter_values *)
set_product_group_parameter_values(s, product_id, values_list) ==
    set_values_from(s, product_id, values_list, 1)

Init ==
    /\ \E base \in Bases, focus \in TableNames :
       \E sh \in Shapes(focus), ds \in Datasets :
       \E blocker \in Blockers(base, focus, sh) :
          /\ sh.kind = "absent" => ds = << >>
          /\ (base # "installed" \/ blocker.kind # "none") =>
                \A k \in 1..Len(ds) : ds[k] = [p |-> 1, sparse |-> FALSE]
          /\ sh.kind # "absent" => ValidTable(LegacyTable(focus, sh, ds))
          /\ disk = InitialDb(base, focus, sh, ds, blocker)
    /\ db = disk
    /\ inTxn = FALSE
    /\ pc = "off"
    /\ run = 0
    /\ idx = 1
    /\ copyMode = "none"
    /\ old = NoOld
    /\ outcome = NoOutcome
    /\ calls = NoCalls
    /\ queried = FALSE
    /\ prevReturned = FALSE
    /\ found = EmptyDb
    /\ returned = NoReturn
    /\ store = EmptyStore
    /\ lastOp = NoLast
    /\ scope = "schema"

----------------------------------------------------------------------------
(* The process *)

table_name == TableOrder[idx]
expected_columns == expected_schema[table_name]

(* What a statement that changes the database leaves committed: the change  *)
(* itself in autocommit, nothing new inside an open transaction             *)
Committed(d) == IF inTxn THEN disk ELSE d

(* Mutant: the constructor catches the exception and returns *)
Raise_Swallowed ==
    /\ db' = disk
    /\ inTxn' = FALSE
    /\ pc' = "ready"
    /\ UNCHANGED <<disk, run, idx, copyMode, old, outcome, queried, prevReturned, found, returned>>

(* Mutant: the loop catches the exception and goes on with the next table *)
Raise_NextTable ==
    /\ idx' = idx + 1
    /\ UNCHANGED <<db, disk, inTxn, pc, run, copyMode, old, outcome, queried, prevReturned, found, returned>>

(* An exception leaves the with block of init_database: the connection      *)
(* rolls back and __init__ raises to its caller                             *)
Raise ==
    /\ db' = disk
    /\ inTxn' = FALSE
    /\ pc' = "failed"
    /\ UNCHANGED <<disk, run, idx, copyMode, old, outcome, queried, prevReturned, found, returned>>

(* DatabaseManager(): __init__ sets expected_schema and calls               *)
(* init_database, which connects                                            *)
Construct ==
    /\ UNCHANGED storeVars
    /\ pc = "off"
    /\ run < MaxRuns
    /\ run' = run + 1
    /\ pc' = "drop_legacy"
    /\ db' = disk
    /\ inTxn' = FALSE
    /\ idx' = 1
    /\ found' = disk
    /\ UNCHANGED <<disk, copyMode, old, outcome, calls, queried, prevReturned, returned>>

(* Mutant: the legacy table is not dropped *)
DropLegacy_Skipped ==
    /\ UNCHANGED storeVars
    /\ pc = "drop_legacy"
    /\ pc' = "migrate"
    /\ UNCHANGED <<db, disk, inTxn, run, idx, copyMode, old, outcome, calls, queried,
                   prevReturned, found, returned>>

(* conn.execute('DROP TABLE IF EXISTS inventory') *)
DropLegacy ==
    /\ UNCHANGED storeVars
    /\ pc = "drop_legacy"
    /\ LET d == IF TableExists(db, "inventory") THEN DropTable(db, "inventory") ELSE db
       IN  db' = d /\ disk' = Committed(d)
    /\ pc' = "migrate"
    /\ UNCHANGED <<inTxn, run, idx, copyMode, old, outcome, calls, queried, prevReturned, found, returned>>

(* One iteration of the loop of init_database: _migrate_table_schema up to  *)
(* its return, or up to the creation of the sibling in _recreate_table      *)
MigrateTable ==
    /\ UNCHANGED storeVars
    /\ pc = "migrate"
    /\ idx <= Len(TableOrder)
    /\ calls' = [calls EXCEPT ![table_name] = @ + 1]
    /\ IF ~TableExists(db, table_name)
       THEN LET made == create_table(db, table_name, expected_columns)
            IN  IF made.ok
                THEN /\ db' = made.db
                     /\ disk' = Committed(made.db)
                     /\ outcome' = [outcome EXCEPT ![table_name] = "Created"]
                     /\ returned' = [returned EXCEPT ![table_name] = None]
                     /\ idx' = idx + 1
                     /\ UNCHANGED <<inTxn, pc, run, copyMode, old, queried, prevReturned, found>>
                ELSE Raise
       ELSE IF SchemaMatches(db, table_name, expected_columns)
       THEN /\ outcome' = [outcome EXCEPT ![table_name] = "NoOpMatched"]
            /\ returned' = [returned EXCEPT ![table_name] = None]
            /\ idx' = idx + 1
            /\ UNCHANGED <<db, disk, inTxn, pc, run, copyMode, old, queried, prevReturned, found>>
       ELSE LET made == create_table(db, temp_table_name(table_name), expected_columns)
            IN  IF made.ok
                THEN /\ db' = made.db
                     /\ disk' = Committed(made.db)
                     /\ old' = [name |-> table_name, table |-> db.tables[table_name]]
                     /\ copyMode' = "none"
                     /\ pc' = "copy"
                     /\ UNCHANGED <<inTxn, run, idx, outcome, queried, prevReturned, found, returned>>
                ELSE Raise

(* Mutant: the original is dropped first, and nothing is left to copy *)
CopyData_DropFirst ==
    /\ UNCHANGED storeVars
    /\ pc = "copy"
    /\ LET d == DropTable(db, table_name)
       IN  db' = d /\ disk' = Committed(d)
    /\ copyMode' = "no_copy"
    /\ pc' = "rename"
    /\ UNCHANGED <<inTxn, run, idx, old, outcome, calls, queried, prevReturned, found, returned>>

(* Mutant: with no common column the original is kept *)
CopyData_KeepsOriginal ==
    /\ UNCHANGED storeVars
    /\ pc = "copy"
    /\ LET temp == temp_table_name(table_name)
           cols == common_cols_str(expected_columns, old.table.cols)
           bulk == copy_sql(db.tables[temp], db.tables[table_name], cols)
           safe == copy_data_safe(bulk.table, db.tables[table_name], cols)
       IN  IF common_columns(expected_columns, old.table.cols) = {}
           THEN /\ copyMode' = "no_copy"
                /\ pc' = "rename"
                /\ UNCHANGED <<db, inTxn>>
           ELSE /\ inTxn' = TRUE
                /\ pc' = "drop"
                /\ IF bulk.ok
                   THEN /\ db' = [db EXCEPT !.tables[temp] = bulk.table]
                        /\ copyMode' = "bulk"
                   ELSE /\ db' = [db EXCEPT !.tables[temp] = safe]
                        /\ copyMode' = "row_by_row"
    /\ UNCHANGED <<disk, run, idx, old, outcome, calls, queried, prevReturned, found, returned>>

(* _recreate_table: the copy of the common columns, in bulk, and row by row *)
(* into what the bulk statement left when it fails; the connection opens a  *)
(* transaction before the INSERT                                            *)
CopyData ==
    /\ UNCHANGED storeVars
    /\ pc = "copy"
    /\ LET temp == temp_table_name(table_name)
           cols == common_cols_str(expected_columns, old.table.cols)
           bulk == copy_sql(db.tables[temp], db.tables[table_name], cols)
           safe == copy_data_safe(bulk.table, db.tables[table_name], cols)
       IN  IF common_columns(expected_columns, old.table.cols) = {}
           THEN /\ copyMode' = "no_copy"
                /\ UNCHANGED <<db, inTxn>>
           ELSE /\ inTxn' = TRUE
                /\ IF bulk.ok
                   THEN /\ db' = [db EXCEPT !.tables[temp] = bulk.table]
                        /\ copyMode' = "bulk"
                   ELSE /\ db' = [db EXCEPT !.tables[temp] = safe]
                        /\ copyMode' = "row_by_row"
    /\ pc' = "drop"
    /\ UNCHANGED <<disk, run, idx, old, outcome, calls, queried, prevReturned, found, returned>>

(* conn.execute(f"DROP TABLE {table_name}") *)
DropOriginal ==
    /\ UNCHANGED storeVars
    /\ pc = "drop"
    /\ LET d == DropTable(db, table_name)
       IN  db' = d /\ disk' = Committed(d)
    /\ pc' = "rename"
    /\ UNCHANGED <<inTxn, run, idx, copyMode, old, outcome, calls, queried, prevReturned, found, returned>>

(* conn.execute(f"ALTER TABLE {temp_table_name} RENAME TO {table_name}") *)
RenameSibling ==
    /\ UNCHANGED storeVars
    /\ pc = "rename"
    /\ LET d == RenameTable(db, temp_table_name(table_name), table_name)
       IN  db' = d /\ disk' = Committed(d)
    /\ outcome' = [outcome EXCEPT ![table_name] = "Rebuilt"]
    /\ returned' = [returned EXCEPT ![table_name] = None]
    /\ idx' = idx + 1
    /\ pc' = "migrate"
    /\ UNCHANGED <<inTxn, run, copyMode, old, calls, queried, prevReturned, found>>

(* Mutant: init_database commits without creating the indexes *)
CreateIndexes_Skipped ==
    /\ UNCHANGED storeVars
    /\ pc = "migrate"
    /\ idx > Len(TableOrder)
    /\ pc' = "commit"
    /\ UNCHANGED <<db, disk, inTxn, run, idx, copyMode, old, outcome, calls, queried,
                   prevReturned, found, returned>>

(* self._create_indexes(conn), after the loop over the tables *)
CreateIndexes ==
    /\ UNCHANGED storeVars
    /\ pc = "migrate"
    /\ idx > Len(TableOrder)
    /\ LET d == create_indexes(db)
       IN  db' = d /\ disk' = Committed(d)
    /\ pc' = "commit"
    /\ UNCHANGED <<inTxn, run, idx, copyMode, old, outcome, calls, queried, prevReturned, found, returned>>

(* conn.commit(); init_database and __init__ return *)
Commit ==
    /\ UNCHANGED storeVars
    /\ pc = "commit"
    /\ disk' = db
    /\ inTxn' = FALSE
    /\ pc' = "ready"
    /\ UNCHANGED <<db, run, idx, copyMode, old, outcome, calls, queried, prevReturned, found, returned>>

(* A method of the instance is called: get_products_data reads products *)
StoreOperation ==
    /\ UNCHANGED storeVars
    /\ pc = "ready"
    /\ queried' = TRUE
    /\ UNCHANGED <<db, disk, inTxn, pc, run, idx, copyMode, old, outcome, calls,
                   prevReturned, found, returned>>

(* The process ends, after a normal start or after the constructor raised *)
Exit ==
    /\ UNCHANGED storeVars
    /\ pc \in { "ready", "failed" }
    /\ pc' = "off"
    /\ prevReturned' = (pc = "ready")
    /\ db' = disk
    /\ inTxn' = FALSE
    /\ idx' = 1
    /\ copyMode' = "none"
    /\ old' = NoOld
    /\ outcome' = NoOutcome
    /\ calls' = NoCalls
    /\ queried' = FALSE
    /\ found' = EmptyDb
    /\ returned' = NoReturn
    /\ UNCHANGED <<disk, run>>

(* The process is killed between two statements of init_database: the       *)
(* engine rolls the open transaction back                                   *)
Crash ==
    /\ UNCHANGED storeVars
    /\ pc \in { "drop_legacy", "migrate", "copy", "drop", "rename", "commit" }
    /\ pc' = "off"
    /\ prevReturned' = FALSE
    /\ db' = disk
    /\ inTxn' = FALSE
    /\ idx' = 1
    /\ copyMode' = "none"
    /\ old' = NoOld
    /\ outcome' = NoOutcome
    /\ calls' = NoCalls
    /\ queried' = FALSE
    /\ found' = EmptyDb
    /\ returned' = NoReturn
    /\ UNCHANGED <<disk, run>>

Next ==
    \/ Construct
    \/ DropLegacy
    \/ MigrateTable
    \/ CopyData
    \/ DropOriginal
    \/ RenameSibling
    \/ CreateIndexes
    \/ Commit
    \/ StoreOperation
    \/ Exit
    \/ Crash

Spec == Init /\ [][Next]_vars

----------------------------------------------------------------------------
(* The store: the operations an instance serves once its constructor has    *)
(* returned.  Each operation opens its own connection and is served whole   *)
(* before the next one (the application calls them from one thread).        *)

(* The tables the operations keep rows of other tables in *)
JunctionTables ==
    { "product_ingredients", "group_products", "group_parameters",
      "product_group_parameter_values" }

(* The database a constructor returns on when every table has the expected  *)
(* columns: with the table constraints of _create_table, or, where an       *)
(* earlier startup rebuilt the tables, without them                         *)
InstalledDb(rebuilt) ==
    create_indexes(
        [tables |-> [t \in TableNames |->
                        IF rebuilt /\ t \in JunctionTables
                        THEN [MatchingTable(t) EXCEPT !.constraints = << >>]
                        ELSE MatchingTable(t)],
         views |-> {},
         indexes |-> NoIndexes])

(* Arguments the operations are called with; the largest id of each kind is *)
(* never handed out                                                         *)
ProductIds == 1..(MaxProducts + 1)
IngredientIds == 1..(MaxIngredients + 1)
GroupIds == 1..MaxGroups
ParameterIds == 1..MaxParameters
Amounts == (0 - 1)..MaxAmount
Deltas == (0 - MaxAmount - 1)..MaxAmount
Changes == (0 - MaxAmount)..MaxAmount
Quantities == 1..MaxQuantity

ListsOf(S) == UNION { [1..n -> S] : n \in 0..MaxItems }

IngredientLists == ListsOf([ingredient_id : IngredientIds, quantity : Quantities])
EventLists == ListsOf([product_id : ProductIds, delta : Changes]) \ { << >> }
NoMapping == [mapping |-> FALSE, parameter_id |-> 0, value |-> 0]
ValueLists ==
    ListsOf([mapping : { TRUE }, parameter_id : 0..MaxParameters, value : 1..MaxVal]
            \cup { NoMapping })

(* The store with one ingredient and one product made of it *)
SeededStore ==
    create_product(create_ingredient(EmptyStore, 1).store, 1,
                   << [ingredient_id |-> 1, quantity |-> 1] >>).store

(* The number of rows of all tables *)
RowCount(s) ==
    Cardinality(DOMAIN s.ingredients) + Cardinality(DOMAIN s.products)
    + Cardinality(DOMAIN s.groups) + Cardinality(DOMAIN s.group_parameters)
    + Len(s.product_ingredients) + Len(s.inventory_events)
    + Len(s.group_products) + Len(s.parameter_values)

(* The rows stay within the bounds of the model *)
Bounded(s) ==
    /\ s.sequence.ingredients <= MaxIngredients
    /\ s.sequence.products <= MaxProducts
    /\ s.sequence.groups <= MaxGroups
    /\ s.sequence.group_parameters <= MaxParameters
    /\ Len(s.inventory_events) <= MaxEvents
    /\ \A p \in DOMAIN s.products : s.products[p].amount <= MaxAmount

StoreInit ==
    /\ \E rebuilt \in BOOLEAN : db = InstalledDb(rebuilt)
    /\ disk = db
    /\ found = db
    /\ inTxn = FALSE
    /\ pc = "ready"
    /\ run = 1
    /\ idx = Len(TableOrder) + 1
    /\ copyMode = "none"
    /\ old = NoOld
    /\ outcome = [t \in TableNames |-> "NoOpMatched"]
    /\ calls = [t \in TableNames |-> 1]
    /\ queried = FALSE
    /\ prevReturned = FALSE
    /\ returned = [t \in TableNames |-> None]
    /\ scope \in { "stock", "groups" }
    /\ store = IF scope = "stock" THEN EmptyStore ELSE SeededStore
    /\ lastOp = NoLast

(* An operation is served: its statements run in one transaction, and the   *)
(* response tells whether it succeeded.  lastOp keeps the product or        *)
(* ingredient the call named and the amount or number of entries it gave    *)
(* (0 where there is none); dirty records that the operation had changed    *)
(* rows when it failed, grew that it left more rows than it found.          *)
Serve(op, id, arg, result) ==
    /\ pc = "ready"
    /\ store' = with_connection(store, result)
    /\ Bounded(store')
    /\ lastOp' = [op |-> op, ok |-> result.ok, id |-> id, arg |-> arg,
                  dirty |-> ~result.ok /\ result.store # store,
                  grew |-> RowCount(store') > RowCount(store)]
    /\ queried' = TRUE
    /\ UNCHANGED <<db, disk, inTxn, pc, run, idx, copyMode, old, outcome, calls,
                   prevReturned, found, returned, scope>>

CreateIngredient ==
    /\ scope = "stock"
    /\ \E unit_cost \in Quantities :
          Serve("create_ingredient", 0, unit_cost, create_ingredient(store, unit_cost))

UpdateIngredient ==
    /\ scope = "stock"
    /\ \E ingredient_id \in IngredientIds, unit_cost \in Quantities :
          Serve("update_ingredient", ingredient_id, unit_cost,
                update_ingredient(store, ingredient_id, unit_cost))

DeleteIngredient ==
    /\ scope = "stock"
    /\ \E ingredient_id \in IngredientIds :
          Serve("delete_ingredient", ingredient_id, 0,
                delete_ingredient(store, ingredient_id))

CreateProduct ==
    /\ scope = "stock"
    /\ \E amount \in Amounts, ingredients \in IngredientLists :
          Serve("create_product", 0, amount, create_product(store, amount, ingredients))

UpdateProduct ==
    /\ scope = "stock"
    /\ \E product_id \in ProductIds, amount \in Amounts, ingredients \in IngredientLists :
          Serve("update_product", product_id, amount,
                update_product(store, product_id, amount, ingredients))

DeleteProduct ==
    /\ \E product_id \in ProductIds :
          Serve("delete_product", product_id, 0, delete_product(store, product_id))

AdjustProductAmount ==
    /\ scope = "stock"
    /\ \E product_id \in ProductIds, delta \in Deltas :
          Serve("adjust_product_amount", product_id, delta,
                adjust_product_amount(store, product_id, delta))

UpdateProductAmount ==
    /\ scope = "stock"
    /\ \E product_id \in ProductIds, new_amount \in Amounts :
          Serve("update_product_amount", product_id, new_amount,
                update_product_amount(store, product_id, new_amount))

AddInventoryEvents ==
    /\ scope = "stock"
    /\ \E events \in EventLists :
          Serve("add_inventory_events", 0, Len(events), add_inventory_events(store, events))

CreateGroup ==
    /\ scope = "groups"
    /\ Serve("create_group", 0, 0, create_group(store))

DeleteGroup ==
    /\ scope = "groups"
    /\ \E group_id \in GroupIds :
          Serve("delete_group", 0, 0, delete_group(store, group_id))

UpdateGroupOrder ==
    /\ scope = "groups"
    /\ \E group_id \in GroupIds, display_order \in 0..MaxOrder :
          Serve("update_group_order", 0, 0,
                update_group_order(store, group_id, display_order))

AddProductToGroup ==
    /\ scope = "groups"
    /\ \E group_id \in GroupIds \cup { NULL }, product_id \in 1..MaxProducts :
          Serve("add_product_to_group", product_id, group_id,
                add_product_to_group(store, group_id, product_id))

RemoveProductFromGroup ==
    /\ scope = "groups"
    /\ \E product_id \in 1..MaxProducts :
          Serve("remove_product_from_group", product_id, 0,
                remove_product_from_group(store, product_id))

CreateGroupParameter ==
    /\ scope = "groups"
    /\ \E group_id \in GroupIds :
          Serve("create_group_parameter", 0, 0,
                create_group_parameter(store, group_id))

DeleteGroupParameter ==
    /\ scope = "groups"
    /\ \E parameter_id \in ParameterIds :
          Serve("delete_group_parameter", 0, 0,
                delete_group_parameter(store, parameter_id))

SetProductGroupParameterValues ==
    /\ scope = "groups"
    /\ \E product_id \in 1..MaxProducts, values_list \in ValueLists :
          Serve("set_product_group_parameter_values", product_id, 0,
                set_product_group_parameter_values(store, product_id, values_list))

StoreNext ==
    \/ CreateIngredient
    \/ UpdateIngredient
    \/ DeleteIngredient
    \/ CreateProduct
    \/ UpdateProduct
    \/ DeleteProduct
    \/ AdjustProductAmount
    \/ UpdateProductAmount
    \/ AddInventoryEvents
    \/ CreateGroup
    \/ DeleteGroup
    \/ UpdateGroupOrder
    \/ AddProductToGroup
    \/ RemoveProductFromGroup
    \/ CreateGroupParameter
    \/ DeleteGroupParameter
    \/ SetProductGroupParameterValues

StoreSpec == StoreInit /\ [][StoreNext]_vars

----------------------------------------------------------------------------
(* Properties *)

(* The rebuild of this run went through and was not rolled back since: its *)
(* original is in old                                                       *)
RebuildDone == old.name # "" /\ outcome[old.name] = "Rebuilt" /\ pc # "failed"

CommonOf(orig) == common_columns(expected_schema[old.name], orig.cols)
AddedOf(orig) == ColNames(expected_schema[old.name]) \ ColNames(orig.cols)

AgreeOn(r, o, cols) == \A c \in cols : r[c] = o[c]

(* C1: after init_database returns, every table of expected_schema exists   *)
(* and the set of its column names is the declared one, no extra and no     *)
(* missing column, in the connection and in the committed database.         *)
C1_ColumnsSynchronized ==
    pc = "ready" =>
        \A t \in TableNames :
            /\ TableExists(db, t) /\ TableExists(disk, t)
            /\ ColNames(db.tables[t].cols) = ColNames(expected_schema[t])
            /\ ColNames(disk.tables[t].cols) = ColNames(expected_schema[t])

C1_Witness ==
    /\ pc = "ready"
    /\ \E t \in TableNames : outcome[t] = "Rebuilt"
    /\ \E t \in TableNames : outcome[t] = "Created"

(* C2: a table that declares table-level constraints carries all of them    *)
(* after it was created or rebuilt, and an insert that repeats the unique   *)
(* key of one of its rows is rejected.                                      *)
C2_ConstraintsCarried ==
    \A t \in TableNames :
        (outcome[t] \in { "Created", "Rebuilt" } /\ create_table_constraints(t) # << >>) =>
            LET table == db.tables[t]
                data == SelectSeq(ColNameSeq(table.cols),
                                  LAMBDA c : ~IsPrimaryKey(DeclOf(table.cols, c)))
            IN  /\ table.constraints = create_table_constraints(t)
                /\ \A k \in 1..Len(table.rows) :
                      ~InsertRow(table, data, SelectRows(table, data)[k]).ok

(* C3, as claimed: after a rebuild whose bulk copy succeeded the table has  *)
(* the declared columns, the rows of the original one for one, the values   *)
(* of the common columns unchanged under the same names, and in every added *)
(* column the declared default, or NULL.                                    *)
C3_BulkCopyAllDefaults ==
    (RebuildDone /\ copyMode = "bulk") =>
        LET new == db.tables[old.name]
            orig == old.table
        IN  /\ ColNames(new.cols) = ColNames(expected_schema[old.name])
            /\ Len(new.rows) = Len(orig.rows)
            /\ \A k \in 1..Len(orig.rows) :
                  /\ AgreeOn(new.rows[k], orig.rows[k], CommonOf(orig))
                  /\ \A c \in AddedOf(orig) :
                        new.rows[k][c] = DefaultValue(DeclOf(new.cols, c))

(* C3, amended: the same, except that an added INTEGER PRIMARY KEY column   *)
(* holds row ids the engine assigns, not NULL and distinct from row to row. *)
C3_BulkCopyPreserves ==
    (RebuildDone /\ copyMode = "bulk") =>
        LET new == db.tables[old.name]
            orig == old.table
        IN  /\ ColNames(new.cols) = ColNames(expected_schema[old.name])
            /\ Len(new.rows) = Len(orig.rows)
            /\ \A k \in 1..Len(orig.rows) :
                  /\ AgreeOn(new.rows[k], orig.rows[k], CommonOf(orig))
                  /\ \A c \in AddedOf(orig) :
                        IF IsPrimaryKey(DeclOf(new.cols, c))
                        THEN /\ new.rows[k][c] # NULL
                             /\ \A m \in 1..Len(orig.rows) :
                                   m # k => new.rows[m][c] # new.rows[k][c]
                        ELSE new.rows[k][c] = DefaultValue(DeclOf(new.cols, c))

C3_Witness ==
    /\ RebuildDone /\ copyMode = "bulk"
    /\ Len(old.table.rows) = MaxRows
    /\ CommonOf(old.table) # {}
    /\ AddedOf(old.table) # {}
    /\ ColNames(old.table.cols) \ ColNames(expected_schema[old.name]) # {}
    /\ \E k \in 1..Len(old.table.rows), c \in CommonOf(old.table) :
          old.table.rows[k][c] = NULL

(* C4: when the bulk copy fails the rebuild still completes.  The table has *)
(* the declared columns and no sibling is left; each of its rows is a row   *)
(* of the original, unchanged in the common columns; a row that can never   *)
(* be inserted is absent; every other row of the original is there, unless  *)
(* a row that is there already holds its unique key.                        *)
C4_FallbackCompletes ==
    (RebuildDone /\ copyMode = "row_by_row") =>
        LET new == db.tables[old.name]
            orig == old.table
            common == CommonOf(orig)
            seq == common_cols_str(expected_schema[old.name], orig.cols)
            empty == [new EXCEPT !.rows = << >>]
            alone(k) == InsertRow(empty, seq, SelectRows(orig, seq)[k]).ok
            held(k) ==
                \E m \in 1..Len(new.rows), c \in common :
                    /\ IsUnique(DeclOf(new.cols, c)) \/ IsPrimaryKey(DeclOf(new.cols, c))
                    /\ orig.rows[k][c] # NULL
                    /\ new.rows[m][c] = orig.rows[k][c]
        IN  /\ ColNames(new.cols) = ColNames(expected_schema[old.name])
            /\ ~TableExists(db, temp_table_name(old.name))
            /\ Len(new.rows) < Len(orig.rows)
            /\ \A m \in 1..Len(new.rows) :
                  \E k \in 1..Len(orig.rows) : AgreeOn(new.rows[m], orig.rows[k], common)
            /\ \A k \in 1..Len(orig.rows) :
                  /\ ~alone(k) =>
                        ~\E m \in 1..Len(new.rows) :
                            AgreeOn(new.rows[m], orig.rows[k], common)
                  /\ alone(k) =>
                        \/ \E m \in 1..Len(new.rows) :
                              AgreeOn(new.rows[m], orig.rows[k], common)
                        \/ held(k)

C4_Witness ==
    /\ RebuildDone /\ copyMode = "row_by_row"
    /\ Len(old.table.rows) = MaxRows
    /\ Len(db.tables[old.name].rows) = MaxRows - 1

(* The rows of orig that the copy can carry are in table: every row that    *)
(* could be inserted on its own is there, unchanged in the common columns,  *)
(* unless a row that is there holds its unique key.                         *)
KeepsRows(table, orig, t) ==
    LET common == common_columns(expected_schema[t], orig.cols)
        seq == common_cols_str(expected_schema[t], orig.cols)
        empty == [table EXCEPT !.rows = << >>]
    IN  common # {} =>
            \A k \in 1..Len(orig.rows) :
                InsertRow(empty, seq, SelectRows(orig, seq)[k]).ok =>
                    \/ \E m \in 1..Len(table.rows) :
                          AgreeOn(table.rows[m], orig.rows[k], common)
                    \/ \E m \in 1..Len(table.rows), c \in common :
                          /\ IsUnique(DeclOf(table.cols, c))
                                \/ IsPrimaryKey(DeclOf(table.cols, c))
                          /\ table.rows[m][c] = orig.rows[k][c]

(* C5: the rebuild copies before it drops.  While the original of the       *)
(* rebuild is gone from the connection, the copy has finished and the       *)
(* sibling (or the renamed table) holds the rows the copy carries; and what *)
(* a crash at this point leaves is either the original table untouched or a *)
(* table, under the temporary or the final name, that holds those rows.     *)
C5_CopyBeforeDrop ==
    old.name # "" =>
        LET t == old.name
            temp == temp_table_name(old.name)
        IN  /\ pc = "copy" => TableExists(db, t) /\ db.tables[t] = old.table
            /\ pc = "rename" =>
                  /\ copyMode # "none"
                  /\ TableExists(db, temp)
                  /\ KeepsRows(db.tables[temp], old.table, t)
            /\ \/ TableExists(disk, t) /\ disk.tables[t] = old.table
               \/ /\ copyMode # "none"
                  /\ \E n \in { t, temp } :
                        /\ TableExists(disk, n)
                        /\ ColNames(disk.tables[n].cols) = ColNames(expected_schema[t])
                        /\ KeepsRows(disk.tables[n], old.table, t)

C5_Witness ==
    /\ pc = "rename"
    /\ copyMode = "bulk"
    /\ Len(old.table.rows) > 0
    /\ Len(db.tables[temp_table_name(old.name)].rows) = Len(old.table.rows)
    /\ TableExists(disk, old.name)
    /\ ~TableExists(db, old.name)

(* C6: when init_database ends, by a return or by an exception, the rebuild *)
(* it started has left no intermediate state in the committed database: the *)
(* sibling this run created does not stand next to the original, and the    *)
(* table is not missing.                                                    *)
C6_NoIntermediateState ==
    (pc \in { "ready", "failed" } /\ old.name # "") =>
        /\ ~TableExists(disk, temp_table_name(old.name))
        /\ TableExists(disk, old.name)

(* C7: a startup that follows a startup whose init_database returned takes  *)
(* the no-op branch for every table, does not fail, and changes nothing in  *)
(* the database: tables, columns, constraints, rows and indexes.            *)
C7_Idempotent ==
    [][ prevReturned =>
          /\ db' = db
          /\ disk' = disk
          /\ pc' \notin { "failed", "copy" }
          /\ \A t \in TableNames : outcome'[t] \in { "none", "NoOpMatched" } ]_vars

C7_Witness ==
    /\ prevReturned
    /\ pc = "ready"
    /\ \A t \in TableNames : outcome[t] = "NoOpMatched"
    /\ \E t \in TableNames : Len(disk.tables[t].rows) > 0

(* C8: when the table exists and its column names are the expected ones,    *)
(* the call of _migrate_table_schema changes nothing: not the table, not    *)
(* any other table, no index, no transaction state.                         *)
C8_NoOpTouchesNothing ==
    [][ ( /\ pc = "migrate"
          /\ idx <= Len(TableOrder)
          /\ TableExists(db, table_name)
          /\ ColNames(db.tables[table_name].cols) = ColNames(expected_columns)
          /\ pc' # "off" )
        => ( /\ db' = db
             /\ disk' = disk
             /\ inTxn' = inTxn
             /\ pc' = "migrate"
             /\ outcome'[table_name] = "NoOpMatched" ) ]_vars

C8_Witness ==
    /\ pc = "migrate"
    /\ \E t \in TableNames :
          /\ outcome[t] = "NoOpMatched"
          /\ Len(db.tables[t].rows) > 0
          /\ db.tables[t].cols # expected_schema[t]

(* C9: in one startup _migrate_table_schema is called at most once for a    *)
(* table, exactly once for every table when init_database commits, and a    *)
(* store operation is served only by an instance whose constructor has      *)
(* returned, all tables reconciled and committed.                           *)
C9_OncePerStartupBeforeStore ==
    /\ \A t \in TableNames : calls[t] <= 1
    /\ pc \in { "commit", "ready" } =>
          \A t \in TableNames : calls[t] = 1 /\ outcome[t] # "none"
    /\ queried =>
          /\ pc = "ready"
          /\ \A t \in TableNames : calls[t] = 1 /\ TableExists(disk, t)

C9_Witness ==
    /\ queried
    /\ \E t \in TableNames : outcome[t] = "Rebuilt"

(* The CREATE TABLE that _migrate_table_schema is about to issue fails *)
CreationFails ==
    /\ pc = "migrate"
    /\ idx <= Len(TableOrder)
    /\ \/ ~TableExists(db, table_name) /\ NameTaken(db, table_name)
       \/ /\ TableExists(db, table_name)
          /\ ColNames(db.tables[table_name].cols) # ColNames(expected_columns)
          /\ NameTaken(db, temp_table_name(table_name))

(* C10: when the creation of a table or of a sibling fails, the constructor *)
(* raises: the loop stops, no later table is reconciled, nothing more is    *)
(* committed, no index is created (indexes are created only after the last  *)
(* table), no store operation is served and the process can only end.       *)
C10_CreationFailureIsFatal ==
    [][ /\ (CreationFails /\ pc' # "off") =>
              /\ pc' = "failed"
              /\ disk' = disk
              /\ ~queried'
              /\ \A k \in (idx + 1)..Len(TableOrder) : calls'[TableOrder[k]] = 0
        /\ pc = "failed" => pc' = "off"
        /\ pc' = "failed" => CreationFails
        /\ ~(DOMAIN disk'.indexes \subseteq DOMAIN disk.indexes) =>
              pc = "commit" \/ (pc = "migrate" /\ idx > Len(TableOrder))
        /\ (~(DOMAIN db'.indexes \subseteq DOMAIN db.indexes) /\ db' # disk) =>
              pc = "migrate" /\ idx > Len(TableOrder) ]_vars

C10_Witness ==
    /\ pc = "failed"
    /\ idx < Len(TableOrder)
    /\ \E k \in (idx + 1)..Len(TableOrder) : ~TableExists(disk, TableOrder[k])
    /\ \E t \in TableNames : outcome[t] = "Created"

(* C11, as claimed: after init_database returns, the database holds no     *)
(* table that is absent from expected_schema.                               *)
C11_NoForeignTableRemains ==
    pc = "ready" => DOMAIN disk.tables \subseteq TableNames

(* C11, amended: once the first statement of init_database has run, the     *)
(* table inventory is gone, from the connection and from the committed      *)
(* database; any other table that is absent from expected_schema is, after  *)
(* init_database returns, as the run found it.                              *)
C11_InventoryDropped ==
    /\ pc \notin { "off", "drop_legacy" } =>
          ~TableExists(db, "inventory") /\ ~TableExists(disk, "inventory")
    /\ pc = "ready" =>
          \A n \in DOMAIN found.tables \ (TableNames \cup { "inventory" }) :
              TableExists(disk, n) /\ disk.tables[n] = found.tables[n]

C11_Witness ==
    /\ pc = "ready"
    /\ TableExists(found, "inventory")
    /\ Len(found.tables["inventory"].rows) > 0
    /\ DOMAIN found.tables \ (TableNames \cup { "inventory" }) # {}

(* The name of the index is not the name of a table or of a view *)
IndexNameFree(d, ix) == ix[1] \notin DOMAIN d.tables /\ ix[1] \notin d.views

(* C12: no index is created before the loop over the tables has ended; when *)
(* _create_indexes has run every table is reconciled, an index that existed *)
(* on a table left alone is as it was, and every index whose name is free   *)
(* exists, whatever index failed before it; init_database fails only inside *)
(* the loop over the tables, never in the creation of the indexes.          *)
C12_IndexCreationTolerant ==
    /\ (pc \in { "copy", "drop", "rename" } \/ (pc = "migrate" /\ idx <= Len(TableOrder))) =>
          DOMAIN db.indexes \subseteq DOMAIN found.indexes
    /\ pc \in { "commit", "ready" } =>
          /\ \A t \in TableNames : outcome[t] # "none"
          /\ \A k \in 1..Len(indexes) :
                /\ (indexes[k][1] \in DOMAIN found.indexes
                        /\ outcome[indexes[k][2]] = "NoOpMatched") =>
                      /\ indexes[k][1] \in DOMAIN db.indexes
                      /\ db.indexes[indexes[k][1]] = found.indexes[indexes[k][1]]
                /\ IndexNameFree(db, indexes[k]) => indexes[k][1] \in DOMAIN db.indexes
    /\ pc = "failed" => idx <= Len(TableOrder)

C12_Witness ==
    /\ pc = "ready"
    /\ \E j \in 1..Len(indexes) :
          /\ ~IndexNameFree(disk, indexes[j])
          /\ indexes[j][1] \notin DOMAIN disk.indexes
          /\ \E k \in (j + 1)..Len(indexes) :
                /\ indexes[k][1] \in DOMAIN disk.indexes
                /\ indexes[k][1] \notin DOMAIN found.indexes
    /\ \E k \in 1..Len(indexes) : indexes[k][1] \in DOMAIN found.indexes

(* C13: after init_database returns from a run in which no index creation   *)
(* failed, every index of the list exists on its table, in the connection   *)
(* and committed, also on a table this run rebuilt.                         *)
C13_DeclaredIndexesExist ==
    (pc = "ready" /\ \A k \in 1..Len(indexes) : IndexNameFree(db, indexes[k])) =>
        \A k \in 1..Len(indexes) :
            /\ indexes[k][1] \in DOMAIN db.indexes
            /\ db.indexes[indexes[k][1]] = indexes[k][2]
            /\ indexes[k][1] \in DOMAIN disk.indexes
            /\ disk.indexes[indexes[k][1]] = indexes[k][2]

C13_Witness ==
    /\ pc = "ready"
    /\ \A k \in 1..Len(indexes) : IndexNameFree(db, indexes[k])
    /\ \E k \in 1..Len(indexes) :
          /\ outcome[indexes[k][2]] = "Rebuilt"
          /\ indexes[k][1] \in DOMAIN found.indexes
          /\ indexes[k][1] \in DOMAIN disk.indexes

(* C14: a table that did not exist is created under its own name, no        *)
(* sibling is created for it, and it has the declared columns in the        *)
(* declared order; a rebuilt table has the declared columns in the declared *)
(* order too.                                                               *)
C14_DeclaredColumnOrder ==
    \A t \in TableNames :
        /\ (outcome[t] = "Created" /\ pc # "failed") =>
              /\ ~TableExists(found, t)
              /\ TableExists(db, temp_table_name(t)) => TableExists(found, temp_table_name(t))
              /\ old.name # t
              /\ db.tables[t].cols = expected_schema[t]
        /\ (outcome[t] = "Rebuilt" /\ pc # "failed") =>
              db.tables[t].cols = expected_schema[t]

C14_Witness ==
    /\ pc = "ready"
    /\ \E t \in TableNames : outcome[t] = "Created"
    /\ RebuildDone
    /\ \E k \in 1..(Len(expected_schema[old.name]) - 1) :
          ColName(expected_schema[old.name][k]) \in AddedOf(old.table)

(* C15: a table the run found with the declared column names, and with a    *)
(* declaration that differs from the declared one, is treated as matching:  *)
(* no rebuild starts, and the table, its declarations included, stays as it *)
(* was found, in the connection and in the committed database.              *)
C15_NameOnlyComparison ==
    \A t \in TableNames :
        ( /\ TableExists(found, t)
          /\ calls[t] = 1
          /\ ColNames(found.tables[t].cols) = ColNames(expected_schema[t])
          /\ found.tables[t].cols # expected_schema[t] ) =>
            /\ outcome[t] = "NoOpMatched"
            /\ old.name # t
            /\ TableExists(db, t) /\ db.tables[t] = found.tables[t]
            /\ TableExists(disk, t) /\ disk.tables[t] = found.tables[t]

C15_Witness ==
    /\ pc = "ready"
    /\ \E t \in TableNames :
          /\ outcome[t] = "NoOpMatched"
          /\ Len(disk.tables[t].rows) > 0
          /\ \E c \in ColNames(expected_schema[t]) :
                DeclOf(disk.tables[t].cols, c) # DeclOf(expected_schema[t], c)

(* C16: every table a foreign key of _create_table references comes before  *)
(* the table that declares the key in the iteration of expected_schema, and *)
(* its reconciliation has ended when that of the declaring table begins.    *)
C16_ReferencedTablesFirst ==
    \A t \in TableNames :
        \A k \in 1..Len(create_table_constraints(t)) :
            LET r == ReferencedTable(create_table_constraints(t)[k])
            IN  r # "" =>
                  /\ r \in TableNames
                  /\ Position(r) < Position(t)
                  /\ calls[t] > 0 => outcome[r] # "none"

C16_Witness ==
    /\ pc = "migrate"
    /\ outcome["group_parameters"] = "Created"
    /\ outcome["groups"] = "Rebuilt"
    /\ calls["product_group_parameter_values"] = 0

(* The report the call of _migrate_table_schema for t owes its caller *)
Report(t) ==
    CASE outcome[t] = "Created" -> [kind |-> "Created"]
      [] outcome[t] = "NoOpMatched" -> [kind |-> "NoOpMatched"]
      [] outcome[t] = "Rebuilt" ->
            [kind |-> "Rebuilt",
             added |-> ColNames(expected_schema[t]) \ ColNames(found.tables[t].cols),
             dropped |-> ColNames(found.tables[t].cols) \ ColNames(expected_schema[t]),
             rows_skipped |->
                IF ColNames(expected_schema[t]) \cap ColNames(found.tables[t].cols) = {}
                THEN 0
                ELSE Len(found.tables[t].rows) - Len(db.tables[t].rows)]

(* C17: the call of _migrate_table_schema returns its outcome: Created,     *)
(* NoOpMatched, or Rebuilt with the added columns, the dropped columns and  *)
(* the number of rows the row-by-row copy skipped.                          *)
C17_OutcomeReported ==
    \A t \in TableNames :
        (outcome[t] # "none" /\ pc # "failed") => returned[t] = Report(t)

(* The run found table t with other columns than the declared ones, and a   *)
(* table under the name of its sibling                                      *)
LeftoverBlocks(t) ==
    /\ TableExists(found, t)
    /\ ColNames(found.tables[t].cols) # ColNames(expected_schema[t])
    /\ TableExists(found, temp_table_name(t))

(* C18: when the run found a table to rebuild and a table named after its   *)
(* sibling, the run fails at that table and never returns, the table is not *)
(* reconciled, and the committed database keeps the table, columns and      *)
(* rows, and the leftover as they were found: the next run finds the same.  *)
C18_LeftoverSiblingIsFatal ==
    \A t \in TableNames :
        LeftoverBlocks(t) =>
            /\ pc \notin { "copy", "drop", "rename", "commit", "ready" }
            /\ outcome[t] = "none"
            /\ calls[t] > 0 => pc = "failed"
            /\ TableExists(disk, t) /\ disk.tables[t] = found.tables[t]
            /\ TableExists(db, t) /\ db.tables[t] = found.tables[t]
            /\ TableExists(disk, temp_table_name(t))
            /\ disk.tables[temp_table_name(t)] = found.tables[temp_table_name(t)]

C18_Witness ==
    /\ pc = "failed"
    /\ run = MaxRuns
    /\ LeftoverBlocks(TableOrder[idx])
    /\ Len(disk.tables[TableOrder[idx]].rows) > 0

(* C19: after a rebuild whose bulk copy failed, no row of the original is   *)
(* in the table more often than in the original.                            *)
C19_FallbackNoDuplicates ==
    (RebuildDone /\ copyMode = "row_by_row") =>
        LET new == db.tables[old.name]
            orig == old.table
            common == CommonOf(orig)
        IN  \A k \in 1..Len(orig.rows) :
                Cardinality({ m \in 1..Len(new.rows) :
                                AgreeOn(new.rows[m], orig.rows[k], common) })
                    <= Cardinality({ j \in 1..Len(orig.rows) :
                                AgreeOn(orig.rows[j], orig.rows[k], common) })

C19_Witness ==
    /\ RebuildDone /\ copyMode = "row_by_row"
    /\ \A c \in CommonOf(old.table) : ~IsPrimaryKey(DeclOf(expected_schema[old.name], c))
    /\ Len(old.table.rows) > 1
    /\ Len(db.tables[old.name].rows) > 0
    /\ AgreeOn(db.tables[old.name].rows[1], old.table.rows[1], CommonOf(old.table))

(* C20: when the table to rebuild shares no column name with its spec, no   *)
(* copy is attempted, the original is dropped, the sibling renamed, and the *)
(* table that results has the declared columns and no row.                  *)
C20_NoCommonColumnRebuild ==
    (old.name # "" /\ CommonOf(old.table) = {}) =>
        LET t == old.name
            temp == temp_table_name(old.name)
        IN  /\ pc = "drop" =>
                  /\ copyMode = "no_copy"
                  /\ TableExists(db, t)
                  /\ db.tables[temp].rows = << >>
            /\ pc = "rename" =>
                  /\ ~TableExists(db, t)
                  /\ db.tables[temp].rows = << >>
            /\ outcome[t] = "Rebuilt" =>
                  /\ copyMode = "no_copy"
                  /\ TableExists(db, t)
                  /\ ~TableExists(db, temp)
                  /\ db.tables[t].cols = expected_schema[t]
                  /\ db.tables[t].rows = << >>

C20_Witness ==
    /\ pc = "ready"
    /\ RebuildDone
    /\ CommonOf(old.table) = {}
    /\ Len(old.table.rows) = MaxRows
    /\ disk.tables[old.name].rows = << >>

(* C21: a step of the reconciliation of a table that does not fail leaves   *)
(* every table but that table and its sibling as it was, in the connection  *)
(* and in the committed database: none appears, none disappears, none       *)
(* changes its columns, its constraints or its rows.                        *)
C21_OtherTablesUnchanged ==
    [][ ( /\ pc \in { "migrate", "copy", "drop", "rename" }
          /\ idx <= Len(TableOrder)
          /\ pc' \notin { "failed", "off" } ) =>
            LET touched == { table_name, temp_table_name(table_name) }
            IN  /\ DOMAIN db'.tables \ touched = DOMAIN db.tables \ touched
                /\ DOMAIN disk'.tables \ touched = DOMAIN disk.tables \ touched
                /\ \A n \in DOMAIN db.tables \ touched : db'.tables[n] = db.tables[n]
                /\ \A n \in DOMAIN disk.tables \ touched :
                      disk'.tables[n] = disk.tables[n] ]_vars

C21_Witness ==
    /\ RebuildDone
    /\ Len(old.table.rows) > 0
    /\ \E t \in TableNames :
          /\ ReferencesOnly(t, old.name)
          /\ TableExists(db, t)
          /\ db.tables[t].rows = << ChildRow(t) >>
          /\ db.tables[t].constraints = create_table_constraints(t)

----------------------------------------------------------------------------
(* Properties of the store operations *)

(* The sum of the deltas of the events recorded for a product *)
RECURSIVE SumOfDeltas(_, _)
SumOfDeltas(events, product_id) ==
    IF events = << >>
    THEN 0
    ELSE (IF Head(events).product_id = product_id THEN Head(events).delta ELSE 0)
         + SumOfDeltas(Tail(events), product_id)

(* C22: after any sequence of create_product, update_product,               *)
(* adjust_product_amount, update_product_amount and add_inventory_events    *)
(* the amount of every product is at least 0                                *)
C22_AmountNeverNegative ==
    \A p \in DOMAIN store.products : store.products[p].amount >= 0

(* C23: adjust_product_amount and update_product_amount on an existing      *)
(* product set the amount to max(0, current + delta) and max(0, new_amount) *)
(* and record exactly one event whose delta is the new amount minus the old *)
(* one, or no event when the amount does not change                         *)
C23_AdjustmentLogsActualChange ==
    [][ ( /\ lastOp'.op \in { "adjust_product_amount", "update_product_amount" }
          /\ lastOp'.ok ) =>
            LET p == lastOp'.id
                asked == lastOp'.arg
                old_amount == store.products[p].amount
                target == IF lastOp'.op = "adjust_product_amount"
                          THEN old_amount + asked
                          ELSE asked
                new_amount == IF target < 0 THEN 0 ELSE target
            IN  /\ p \in DOMAIN store.products
                /\ store'.products[p].amount = new_amount
                /\ store'.inventory_events =
                      IF new_amount = old_amount
                      THEN store.inventory_events
                      ELSE Append(store.inventory_events,
                                  [product_id |-> p, delta |-> new_amount - old_amount])
      ]_vars

(* An adjustment asked to remove more than the stock: the amount is 0 and   *)
(* the event recorded last carries the amount removed, not the one asked    *)
C23_Witness ==
    /\ lastOp.op = "adjust_product_amount"
    /\ lastOp.ok
    /\ lastOp.arg = 0 - MaxAmount - 1
    /\ store.products[lastOp.id].amount = 0
    /\ store.inventory_events # << >>
    /\ store.inventory_events[Len(store.inventory_events)] =
          [product_id |-> lastOp.id, delta |-> 0 - MaxAmount]

(* C24: for every existing product the amount is the sum of the deltas of   *)
(* the inventory events recorded for it                                     *)
C24_EventsAccountForAmount ==
    \A p \in DOMAIN store.products :
       store.products[p].amount = SumOfDeltas(store.inventory_events, p)

(* C25: a store operation that returns success = False leaves the database  *)
(* exactly as it was before the call                                        *)
C25_FailureLeavesDatabase ==
    [][ ~lastOp'.ok => (store' = store /\ db' = db /\ disk' = disk) ]_vars

(* A batch of events failed at its second entry, the first one applied *)
C25_Witness ==
    /\ lastOp.op = "add_inventory_events"
    /\ ~lastOp.ok
    /\ lastOp.dirty
    /\ lastOp.arg = 2

(* The rows of group_products of a product *)
MembershipsOf(s, product_id) ==
    SelectSeq(s.group_products, LAMBDA r : r.product_id = product_id)

(* C26: every product belongs to at most one group, also when               *)
(* UNIQUE(product_id) is not on group_products, and after                   *)
(* add_product_to_group(g, p) succeeds p is in group g only                 *)
C26_AtMostOneGroup ==
    /\ [](\A p \in ProductIds : Len(MembershipsOf(store, p)) <= 1)
    /\ [][ (lastOp'.op = "add_product_to_group" /\ lastOp'.ok) =>
              MembershipsOf(store', lastOp'.id) =
                 << [group_id |-> lastOp'.arg, product_id |-> lastOp'.id] >> ]_vars

(* Without the constraint, a product that was in a group has been added to  *)
(* the second group: the call replaced its row                              *)
C26_Witness ==
    /\ ~HasUnique("group_products", { "product_id" })
    /\ lastOp.op = "add_product_to_group"
    /\ lastOp.ok
    /\ ~lastOp.grew
    /\ lastOp.arg = 2
    /\ MembershipsOf(store, lastOp.id) # << >>

(* C27: every row of product_group_parameter_values of a product refers to  *)
(* a parameter of the group the product currently belongs to                *)
C27_ValuesWithinCurrentGroup ==
    \A k \in 1..Len(store.parameter_values) :
       LET v == store.parameter_values[k]
       IN  /\ v.group_parameter_id \in DOMAIN store.group_parameters
           /\ \E j \in 1..Len(store.group_products) :
                 /\ store.group_products[j].product_id = v.product_id
                 /\ store.group_products[j].group_id =
                       store.group_parameters[v.group_parameter_id].group_id

(* C28: every row of product_ingredients, group_products, group_parameters, *)
(* product_group_parameter_values and inventory_events references a         *)
(* product, ingredient, group or group parameter that exists                *)
C28_ReferentialIntegrity ==
    /\ \A k \in 1..Len(store.product_ingredients) :
          /\ store.product_ingredients[k].product_id \in DOMAIN store.products
          /\ store.product_ingredients[k].ingredient_id \in DOMAIN store.ingredients
    /\ \A k \in 1..Len(store.group_products) :
          /\ store.group_products[k].group_id \in DOMAIN store.groups
          /\ store.group_products[k].product_id \in DOMAIN store.products
    /\ \A q \in DOMAIN store.group_parameters :
          store.group_parameters[q].group_id \in DOMAIN store.groups
    /\ \A k \in 1..Len(store.parameter_values) :
          /\ store.parameter_values[k].product_id \in DOMAIN store.products
          /\ store.parameter_values[k].group_parameter_id \in DOMAIN store.group_parameters
    /\ \A k \in 1..Len(store.inventory_events) :
          store.inventory_events[k].product_id \in DOMAIN store.products

(* C29: create_group gives the new group the largest display_order of the   *)
(* existing groups plus 1 (0 when there is none), and                       *)
(* create_group_parameter does the same among the parameters of the group   *)
C29_NextDisplayOrder ==
    [][ /\ (lastOp'.op = "create_group" /\ lastOp'.ok) =>
              LET g == store'.sequence.groups
                  orders == { store.groups[x].display_order : x \in DOMAIN store.groups }
              IN  /\ g \in DOMAIN store'.groups \ DOMAIN store.groups
                  /\ store'.groups[g].display_order =
                        IF orders = {} THEN 0 ELSE MaxOf(orders) + 1
        /\ (lastOp'.op = "create_group_parameter" /\ lastOp'.ok) =>
              LET q == store'.sequence.group_parameters
                  orders == { store.group_parameters[x].display_order :
                                 x \in { y \in DOMAIN store.group_parameters :
                                            store.group_parameters[y].group_id =
                                               store'.group_parameters[q].group_id } }
              IN  /\ q \in DOMAIN store'.group_parameters \ DOMAIN store.group_parameters
                  /\ store'.group_parameters[q].display_order =
                        IF orders = {} THEN 0 ELSE MaxOf(orders) + 1
      ]_vars

(* The sums of quantity_used, and of quantity_used times cost_per_unit, over *)
(* the rows of product_ingredients of a product                             *)
RECURSIVE SumOfQuantities(_, _)
SumOfQuantities(rows, product_id) ==
    IF rows = << >>
    THEN 0
    ELSE (IF Head(rows).product_id = product_id THEN Head(rows).quantity_used ELSE 0)
         + SumOfQuantities(Tail(rows), product_id)

RECURSIVE SumOfCosts(_, _)
SumOfCosts(rows, product_id) ==
    IF rows = << >>
    THEN 0
    ELSE (IF Head(rows).product_id = product_id
          THEN Head(rows).quantity_used * Head(rows).cost_per_unit
          ELSE 0)
         + SumOfCosts(Tail(rows), product_id)

(* C30: for every product total_quantity is the sum of quantity_used and    *)
(* total_cost the sum of quantity_used times cost_per_unit over its rows of *)
(* product_ingredients                                                      *)
C30_TotalsMatchIngredients ==
    \A p \in DOMAIN store.products :
       /\ store.products[p].total_quantity =
             SumOfQuantities(store.product_ingredients, p)
       /\ store.products[p].total_cost = SumOfCosts(store.product_ingredients, p)

(* C31: every existing product has at least one row in product_ingredients *)
C31_EveryProductHasIngredient ==
    \A p \in DOMAIN store.products :
       \E k \in 1..Len(store.product_ingredients) :
          store.product_ingredients[k].product_id = p

(* The parameters a list of values names, and the value it gives last for   *)
(* one of them                                                              *)
GivenParameters(values_list) ==
    { values_list[k].parameter_id : k \in 1..Len(values_list) } \ { 0, NULL }

LastValueFor(values_list, param_id) ==
    LET at == { k \in 1..Len(values_list) : values_list[k].parameter_id = param_id }
    IN  values_list[MaxOf(at)].value

(* The rows of product_group_parameter_values of a product and a parameter *)
ValuesOfPair(s, product_id, param_id) ==
    SelectSeq(s.parameter_values,
              LAMBDA r : r.product_id = product_id /\ r.group_parameter_id = param_id)

(* C32: set_product_group_parameter_values is an upsert: there is at most   *)
(* one row per (product_id, group_parameter_id); a call that succeeds       *)
(* leaves, for every parameter its list names, one row holding the value    *)
(* the list gives last, skips the items without a parameter_id and touches  *)
(* no other row; repeating the call leaves the same rows and values         *)
C32_SetValuesIsUpsert ==
    /\ \A p \in ProductIds, q \in ParameterIds : Len(ValuesOfPair(store, p, q)) <= 1
    /\ \A p \in 1..MaxProducts, values_list \in ValueLists :
          LET result == set_product_group_parameter_values(store, p, values_list)
              after == with_connection(store, result)
              given == GivenParameters(values_list)
              again == set_product_group_parameter_values(after, p, values_list)
          IN  result.ok =>
                /\ \A q \in given :
                      /\ Len(ValuesOfPair(after, p, q)) = 1
                      /\ ValuesOfPair(after, p, q)[1].value = LastValueFor(values_list, q)
                /\ SelectSeq(after.parameter_values,
                             LAMBDA r : ~(r.product_id = p /\ r.group_parameter_id \in given))
                      = SelectSeq(store.parameter_values,
                                  LAMBDA r : ~(r.product_id = p /\ r.group_parameter_id \in given))
                /\ [after EXCEPT !.parameter_values = << >>]
                      = [store EXCEPT !.parameter_values = << >>]
                /\ again.ok
                /\ with_connection(after, again) = after

(* On a table without UNIQUE(product_id, group_parameter_id) a call found   *)
(* the row of its pair and gave it the second value: still one row          *)
C32_Witness ==
    /\ ~HasUnique("product_group_parameter_values",
                  { "product_id", "group_parameter_id" })
    /\ lastOp.op = "set_product_group_parameter_values"
    /\ lastOp.ok
    /\ ~lastOp.grew
    /\ Len(ValuesOfPair(store, lastOp.id, 1)) = 1
    /\ ValuesOfPair(store, lastOp.id, 1)[1].value = MaxVal

====
